---- MODULE Spec2Model ----
(***************************************************************************)
(* A model of serializr's asynchronous deserialization engine              *)
(* (src/serializr.js): Context bookkeeping, createCallback, await /        *)
(* resolve, parallel, the built-in prop schemas and deserialize / update.  *)
(*                                                                         *)
(* A synchronous call of the library (deserialize, update, or a user       *)
(* invoking a continuation it was handed) is one action.  The call is      *)
(* computed by operators that thread a record S holding the whole program  *)
(* state; a thrown exception is the field S.exc, which stops the rest of   *)
(* the synchronous computation.                                            *)
(***************************************************************************)
EXTENDS Integers, Sequences, FiniteSets, TLC

VARIABLES ctxs, cbs, pars, maps, heap, async, log, ret, exc, call, registry

vars == <<ctxs, cbs, pars, maps, heap, async, log, ret, exc, call, registry>>

(***************************************************************************)
(* Bounds of the explored inputs.                                          *)
(***************************************************************************)
MaxId == 2
MaxLen == 2
MaxItems == 2

Ids == 1..MaxId

(***************************************************************************)
(* JSON values and in-memory values: tagged records.                       *)
(***************************************************************************)
Undefined == [k |-> "undef", v |-> 0]
Null == [k |-> "null", v |-> 0]
Absent == [k |-> "absent", v |-> 0]
Prim(n) == [k |-> "prim", v |-> n]
Ref(h) == [k |-> "ref", v |-> h]
Arr(s) == [k |-> "arr", v |-> s]
Obj(pairs) == [k |-> "obj", v |-> pairs]
MapRef(h) == [k |-> "mapref", v |-> h]
Looked(fn, id) == [k |-> fn, v |-> id]
Date(time) == [k |-> "date", v |-> time]

isNullish(value) == value.k \in {"null", "undef"}

isPrimitive(value) == value.k \in {"null", "undef", "prim"}

\* key of a value used as a property name of pendingRefs / resolvedRefs:
\* the identifier itself, or the keys "undefined" and "null"
UndefKey == 0
NullKey == -1
KeyOf(value) ==
    IF value.k = "prim" THEN value.v
    ELSE IF value.k = "null" THEN NullKey ELSE UndefKey
RefKeys == {UndefKey, NullKey} \cup Ids

\* `key in json` and json[key] for a JSON object given as a sequence of pairs
HasKey(json, key) == json.k = "obj" /\ \E i \in 1..Len(json.v) : json.v[i].key = key
Get(json, key) ==
    LET i == CHOOSE i \in 1..Len(json.v) : json.v[i].key = key
    IN  json.v[i].val

(***************************************************************************)
(* Errors (the first argument of a node-style callback).                   *)
(***************************************************************************)
NoErr == [e |-> "", keys |-> {}]
Err(msg) == [e |-> msg, keys |-> {}]
Unresolvable(keys) == [e |-> "Unresolvable references in json", keys |-> keys]

(***************************************************************************)
(* Continuations: a reference to a function value of the program.          *)
(*   user  the completion callback given to deserialize / update           *)
(*   noop  GUARDED_NOOP                                                    *)
(*   ctxcb the wrapper returned by createCallback, cbs[id]                 *)
(*   par   processorCb.bind(null, idx) of the parallel call pars[id]       *)
(*   map   the aggregate function of map's deserializer, maps[id]          *)
(***************************************************************************)
Cont(k, id, idx) == [k |-> k, id |-> id, idx |-> idx]
UserCb == Cont("user", 0, 0)
NoCallback == Cont("undefined", 0, 0)
GUARDED_NOOP == Cont("noop", 0, 0)

(***************************************************************************)
(* Prop schemas.                                                           *)
(***************************************************************************)
PropSchema(k, arg) == [k |-> k, jsonname |-> "", arg |-> arg, identifier |-> (k = "identifier")]
primitive == PropSchema("primitive", "")
identifier == PropSchema("identifier", "")
reference(schema) == PropSchema("reference", schema)
lookup(fn) == PropSchema("lookup", fn)
list(inner) == PropSchema("list", inner)
map(inner) == PropSchema("map", inner)
object(schema) == PropSchema("object", schema)
StarTrue == PropSchema("true", "")
False == PropSchema("false", "")
date == PropSchema("date", "")
custom(serializer, deserializer) == PropSchema("custom", <<serializer, deserializer>>)

\* a prop schema constructor that threw
Thrown(message) == PropSchema("thrown", message)

isAliasedPropSchema(propSchema) == propSchema.jsonname # ""
isIdentifierPropSchema(propSchema) == propSchema.identifier

\* alias without the identifier flag of the aliased prop schema
alias_noIdentifier(name, propSchema) ==
    IF name = "" THEN Thrown("[serializr] expected prop name as first argument")
    ELSE IF isAliasedPropSchema(propSchema)
    THEN Thrown("[serializr] provided prop is already aliased")
    ELSE [jsonname |-> name, k |-> propSchema.k, arg |-> propSchema.arg,
          identifier |-> FALSE]

alias(name, propSchema) ==
    IF name = "" THEN Thrown("[serializr] expected prop name as first argument")
    ELSE IF isAliasedPropSchema(propSchema)
    THEN Thrown("[serializr] provided prop is already aliased")
    ELSE [jsonname |-> name, k |-> propSchema.k, arg |-> propSchema.arg,
          identifier |-> isIdentifierPropSchema(propSchema)]
P(name, def) == [name |-> name, def |-> def]

(***************************************************************************)
(* The model schemas of the explored programs.                             *)
(***************************************************************************)
SchemaNames == {"Node", "Doc", "Lib", "Base", "Child", "Bag", "Rec", "Clash", "Prims",
                "Shape", "Circle", "Scene"}

ModelSchema(name) ==
    CASE name = "Node" ->
           [extends |-> "",
            props |-> << P("uuid", identifier),
                         P("author", reference("Node")),
                         P("coauthors", list(reference("Node"))),
                         P("editor", lookup("lookupA")),
                         P("links", list(lookup("lookupA"))),
                         P("msg", primitive),
                         P("tags", map(lookup("lookupB"))) >>]
      [] name = "Doc" ->
           [extends |-> "",
            props |-> << P("items", list(object("Node"))),
                         P("more", list(object("Node"))),
                         P("msg", primitive) >>]
      [] name = "Lib" ->
           [extends |-> "",
            props |-> << P("doc", object("Doc")) >>]
      [] name = "Base" ->
           [extends |-> "",
            props |-> << P("x", lookup("lookupA")),
                         P("y", primitive),
                         P("msg", primitive) >>]
      [] name = "Child" ->
           [extends |-> "Base",
            props |-> << P("x", lookup("lookupB")),
                         P("y", alias("why", primitive)) >>]
      [] name = "Bag" ->
           [extends |-> "",
            props |-> << P("msg", alias("m", primitive)),
                         P("*", StarTrue),
                         P("y", False) >>]
      [] name = "Rec" ->
           [extends |-> "",
            props |-> << P("msg", StarTrue),
                         P("y", alias("why", primitive)),
                         P("born", date),
                         P("died", alias("until", date)),
                         P("code", custom("plus100", "minus100")) >>]
      [] name = "Clash" ->
           [extends |-> "",
            props |-> << P("x", alias("y", primitive)),
                         P("y", primitive) >>]
      [] name = "Prims" ->
           [extends |-> "",
            props |-> << P("msg", StarTrue),
                         P("y", primitive) >>]
      [] name = "Shape" ->
           [extends |-> "",
            props |-> << P("uuid", identifier) >>]
      [] name = "Circle" ->
           [extends |-> "Shape",
            props |-> << P("msg", primitive) >>]
      [] name = "Scene" ->
           [extends |-> "",
            props |-> << P("wantsShape", reference("Shape")),
                         P("wantsCircle", reference("Circle")),
                         P("shape", object("Shape")),
                         P("circle", object("Circle")),
                         P("node", object("Node")),
                         P("lateShape", reference("Shape")),
                         P("lateCircle", reference("Circle")) >>]

\* the property names an object of the explored programs can have
PropOrder == <<"uuid", "author", "coauthors", "editor", "links", "msg", "tags",
               "items", "more", "x", "y", "extra", "why", "born", "died", "code",
               "doc", "wantsShape", "wantsCircle", "shape", "circle", "node",
               "lateShape", "lateCircle">>
PropNames == {PropOrder[i] : i \in 1..Len(PropOrder)}

\* isAssignableTo that does not follow extends
isAssignableTo_exact(actualType, expectedType) == actualType = expectedType

RECURSIVE isAssignableTo(_, _)
isAssignableTo(actualType, expectedType) ==
    IF actualType = "" THEN FALSE
    ELSE IF actualType = expectedType THEN TRUE
    ELSE isAssignableTo(ModelSchema(actualType).extends, expectedType)

(***************************************************************************)
(* The threaded program state and exceptions.                              *)
(***************************************************************************)
Throw(S, message) == [S EXCEPT !.exc = message]

invariant(S, cond, message) == IF cond THEN S ELSE Throw(S, message)

\* resultArray.push(result): results in the order of completion
SetAt_push(arr, idx, value) == Append(arr, value)

\* resultArray[idx] = result on a JavaScript array (holes are undefined)
SetAt(arr, idx, value) ==
    [i \in 1..(IF idx > Len(arr) THEN idx ELSE Len(arr)) |->
        IF i = idx THEN value ELSE IF i <= Len(arr) THEN arr[i] ELSE Undefined]

\* array.splice(i, 1)
Splice(arr, i) == [j \in 1..(Len(arr) - 1) |-> IF j < i THEN arr[j] ELSE arr[j + 1]]

Unfired(S) == Cardinality({c \in 1..Len(S.cbs) : ~S.cbs[c].fired})

PendingKeys(ctx) == {u \in RefKeys : Len(ctx.pendingRefs[u]) > 0}

(***************************************************************************)
(* Context (src/serializr.js 422-441).                                     *)
(***************************************************************************)
Context(S, parentContext, modelSchema, json, onReadyCb) ==
    LET self == Len(S.ctxs) + 1
        isRoot == parentContext = 0
    IN  [S EXCEPT !.ctxs = Append(@,
            [parentContext |-> parentContext,
             isRoot |-> isRoot,
             pendingCallbacks |-> 0,
             pendingRefsCount |-> 0,
             onReadyCb |-> IF onReadyCb = NoCallback THEN GUARDED_NOOP ELSE onReadyCb,
             json |-> json,
             target |-> 0,
             hasError |-> FALSE,
             modelSchema |-> modelSchema,
             rootContext |-> IF isRoot THEN self ELSE parentContext,
             pendingRefs |-> [u \in RefKeys |-> <<>>],
             resolvedRefs |-> [u \in RefKeys |-> <<>>],
             ready |-> 0,
             enqueued |-> 0])]

\* fn of a createCallback wrapper: the lock's GUARDED_NOOP or the assignment
\* function (value) { target[propName] = value }
NoopFn == [k |-> "noop", target |-> 0, prop |-> ""]
AssignFn(target, propName) == [k |-> "assign", target |-> target, prop |-> propName]

\* createCallback that sets the counter instead of incrementing it
createCallback_set(S, c, fn) ==
    [S EXCEPT !.ctxs[c].pendingCallbacks = 1,
              !.cbs = Append(@, [ctx |-> c, fn |-> fn, fired |-> FALSE,
                                 ran |-> FALSE, latched |-> FALSE, called |-> FALSE,
                                 stamp |-> 0])]

createCallback(S, c, fn) ==
    [S EXCEPT !.ctxs[c].pendingCallbacks = @ + 1,
              !.cbs = Append(@, [ctx |-> c, fn |-> fn, fired |-> FALSE,
                                 ran |-> FALSE, latched |-> FALSE, called |-> FALSE,
                                 stamp |-> 0])]

RunFn(S, fn, value) ==
    IF fn.k = "assign"
    THEN [S EXCEPT !.heap[fn.target].fields[fn.prop] = value]
    ELSE IF value.k \in {"undef", "null"} THEN S ELSE Throw(S, "GUARDED_NOOP")

(***************************************************************************)
(* The call stack.  A synchronous call of the library runs to completion;  *)
(* the calls still to be made are frames of S.stack, the first frame being *)
(* the next to run.  A function that calls g and then h pushes <<g, h>>.   *)
(***************************************************************************)
Push(S, frames) == [S EXCEPT !.stack = frames \o @]

\* cont(err, value)
CallInvoke(cont, err, value) == [op |-> "invoke", cont |-> cont, err |-> err, value |-> value]
\* the loop of Context.prototype.resolve, at index i
CallResolveLoop(c, modelSchema, uuid, value, i) ==
    [op |-> "resolveLoop", c |-> c, modelSchema |-> modelSchema, uuid |-> uuid,
     value |-> value, i |-> i]
\* propSchema.deserializer(jsonValue, done, context, oldValue)
CallDeserializer(propSchema, jsonValue, done, context, oldValue) ==
    [op |-> "deserializer", propSchema |-> propSchema, jsonValue |-> jsonValue,
     done |-> done, context |-> context, oldValue |-> oldValue]
\* ar.forEach of parallel, at index idx
CallParallelLoop(ar, proc, p, idx) ==
    [op |-> "parallelLoop", ar |-> ar, proc |-> proc, p |-> p, idx |-> idx]
\* items.push(instance) of deserialize
CallPushItem == [op |-> "pushItem"]
\* deserializeObjectWithSchema(parentContext, schema, json, callback)
CallDeserializeObject(parentContext, schema, json, callback) ==
    [op |-> "deserializeObject", parentContext |-> parentContext, schema |-> schema,
     json |-> json, callback |-> callback]
\* deserializePropsWithSchema(context, schema, json, target)
CallDeserializeProps(context, schema, json, target) ==
    [op |-> "deserializeProps", context |-> context, schema |-> schema, json |-> json,
     target |-> target]
\* Object.keys(schema.props).forEach of deserializePropsWithSchema, at prop i
CallPropsLoop(context, schema, json, target, i) ==
    [op |-> "propsLoop", context |-> context, schema |-> schema, json |-> json,
     target |-> target, i |-> i]
\* return value
CallReturn(value) == [op |-> "return", value |-> value]

\* this.onReadyCb(err, value) from inside the wrapper cbs[c]
OnReady(S, c, err, value) ==
    LET x == S.cbs[c].ctx
        S1 == [S EXCEPT !.cbs[c].called = TRUE, !.ctxs[x].ready = @ + 1]
    IN  Push(S1, <<CallInvoke(S.ctxs[x].onReadyCb, err, value)>>)

\* the wrapper without the hasError latch: an error is reported every time
CallbackWrapper_noLatch(S, c, err, value) ==
    LET x == S.cbs[c].ctx IN
    IF S.cbs[c].fired THEN Throw(S, "[serializr] callback was invoked twice")
    ELSE
      LET S1 == [S EXCEPT !.cbs[c].fired = TRUE,
                          !.cbs[c].latched = S.ctxs[x].hasError,
                          !.cbs[c].stamp = Len(S.cbs) - Unfired(S) + 1]
      IN
      IF err.e # ""
      THEN OnReady([S1 EXCEPT !.ctxs[x].hasError = TRUE], c, err, Undefined)
      ELSE
        LET S2 == RunFn([S1 EXCEPT !.cbs[c].ran = TRUE], S1.cbs[c].fn, value)
            S3 == [S2 EXCEPT !.ctxs[x].pendingCallbacks = @ - 1]
        IN  IF S2.exc # "" THEN S2
            ELSE IF S3.ctxs[x].pendingCallbacks = S3.ctxs[x].pendingRefsCount
            THEN IF S3.ctxs[x].pendingRefsCount > 0
                 THEN OnReady(S3, c, Unresolvable(PendingKeys(S3.ctxs[x])), Undefined)
                 ELSE OnReady(S3, c, NoErr, Ref(S3.ctxs[x].target))
            ELSE S3

\* the wrapper without once(): a second invocation runs the body again
CallbackWrapper_noOnce(S, c, err, value) ==
    LET x == S.cbs[c].ctx
        S1 == [S EXCEPT !.cbs[c].fired = TRUE,
                        !.cbs[c].latched = S.ctxs[x].hasError,
                        !.cbs[c].stamp = Len(S.cbs) - Unfired(S) + 1]
    IN
    IF err.e # ""
    THEN IF ~S1.ctxs[x].hasError
         THEN OnReady([S1 EXCEPT !.ctxs[x].hasError = TRUE], c, err, Undefined)
         ELSE S1
    ELSE IF ~S1.ctxs[x].hasError
         THEN
           LET S2 == RunFn([S1 EXCEPT !.cbs[c].ran = TRUE], S1.cbs[c].fn, value)
               S3 == [S2 EXCEPT !.ctxs[x].pendingCallbacks = @ - 1]
           IN  IF S2.exc # "" THEN S2
               ELSE IF S3.ctxs[x].pendingCallbacks = S3.ctxs[x].pendingRefsCount
               THEN IF S3.ctxs[x].pendingRefsCount > 0
                    THEN OnReady(S3, c, Unresolvable(PendingKeys(S3.ctxs[x])), Undefined)
                    ELSE OnReady(S3, c, NoErr, Ref(S3.ctxs[x].target))
               ELSE S3
         ELSE S1

\* the function returned by createCallback, with once() around it
\* (src/serializr.js 13-22, 445-467)
CallbackWrapper(S, c, err, value) ==
    LET x == S.cbs[c].ctx IN
    IF S.cbs[c].fired THEN Throw(S, "[serializr] callback was invoked twice")
    ELSE
      LET S1 == [S EXCEPT !.cbs[c].fired = TRUE,
                          !.cbs[c].latched = S.ctxs[x].hasError,
                          !.cbs[c].stamp = Len(S.cbs) - Unfired(S) + 1]
      IN
      IF err.e # ""
      THEN IF ~S1.ctxs[x].hasError
           THEN OnReady([S1 EXCEPT !.ctxs[x].hasError = TRUE], c, err, Undefined)
           ELSE S1
      ELSE IF ~S1.ctxs[x].hasError
           THEN
             LET S2 == RunFn([S1 EXCEPT !.cbs[c].ran = TRUE], S1.cbs[c].fn, value)
                 S3 == [S2 EXCEPT !.ctxs[x].pendingCallbacks = @ - 1]
             IN  IF S2.exc # "" THEN S2
                 ELSE IF S3.ctxs[x].pendingCallbacks = S3.ctxs[x].pendingRefsCount
                 THEN IF S3.ctxs[x].pendingRefsCount > 0
                      THEN OnReady(S3, c, Unresolvable(PendingKeys(S3.ctxs[x])), Undefined)
                      ELSE OnReady(S3, c, NoErr, Ref(S3.ctxs[x].target))
                 ELSE S3
           ELSE S1

\* the createCallback wrappers that a pending await leads to: the callback
\* of an entry of pendingRefs, or the callback of the parallel call whose
\* processorCb the entry holds
Awaiting(S) ==
    {c \in 1..Len(S.cbs) :
        \E x \in 1..Len(S.ctxs) : \E u \in RefKeys :
        \E i \in 1..Len(S.ctxs[x].pendingRefs[u]) :
           LET cb == S.ctxs[x].pendingRefs[u][i].callback
           IN  \/ cb = Cont("ctxcb", c, 0)
               \/ cb.k = "par" /\ S.pars[cb.id].cb = Cont("ctxcb", c, 0)}

\* the user's completion callback: records the invocation together with the
\* bookkeeping of every Context at that moment
UserCompletion(S, cont, err, value) ==
    [S EXCEPT !.log = Append(@,
        [by |-> cont.id, err |-> err, value |-> value,
         counts |-> [i \in 1..Len(S.ctxs) |->
                        <<S.ctxs[i].pendingCallbacks, S.ctxs[i].pendingRefsCount>>],
         unfired |-> Unfired(S),
         outstanding |-> Cardinality(S.async),
         pending |-> {c \in 1..Len(S.cbs) : ~S.cbs[c].fired},
         awaiting |-> Awaiting(S),
         resolved |-> [i \in 1..Len(S.ctxs) |->
                         [u \in RefKeys |-> Len(S.ctxs[i].resolvedRefs[u])]]])]

\* processorCb of parallel without the failed flag: every element error is
\* handed to the aggregate callback
processorCb_noFailed(S, p, idx, err, result) ==
    LET S0 == [S EXCEPT !.pars[p].seen = Append(@, idx),
                        !.pars[p].errs = Append(@, err)] IN
    IF err.e # ""
    THEN LET S1 == [S0 EXCEPT !.pars[p].failed = TRUE,
                              !.pars[p].agg = Append(@, [err |-> err, seen |-> S0.pars[p].seen,
                                                         value |-> Undefined])]
         IN  Push(S1, <<CallInvoke(S1.pars[p].cb, err, Undefined)>>)
    ELSE LET S1 == [S0 EXCEPT !.pars[p].resultArray = SetAt(@, idx, result),
                              !.pars[p].left = @ - 1]
         IN  IF S1.pars[p].left = 0
             THEN Push([S1 EXCEPT !.pars[p].agg =
                            Append(@, [err |-> NoErr, seen |-> S1.pars[p].seen,
                                       value |-> Arr(S1.pars[p].resultArray)])],
                       <<CallInvoke(S1.pars[p].cb, NoErr, Arr(S1.pars[p].resultArray))>>)
             ELSE S1

\* processorCb of parallel (src/serializr.js 36-47)
processorCb(S, p, idx, err, result) ==
    LET S0 == [S EXCEPT !.pars[p].seen = Append(@, idx),
                        !.pars[p].errs = Append(@, err)] IN
    IF err.e # ""
    THEN IF ~S0.pars[p].failed
         THEN LET S1 == [S0 EXCEPT !.pars[p].failed = TRUE,
                                   !.pars[p].agg = Append(@, [err |-> err, seen |-> S0.pars[p].seen,
                                                              value |-> Undefined])]
              IN  Push(S1, <<CallInvoke(S1.pars[p].cb, err, Undefined)>>)
         ELSE S0
    ELSE LET S1 == [S0 EXCEPT !.pars[p].resultArray = SetAt(@, idx, result),
                              !.pars[p].left = @ - 1]
         IN  IF S1.pars[p].left = 0
             THEN Push([S1 EXCEPT !.pars[p].agg =
                            Append(@, [err |-> NoErr, seen |-> S1.pars[p].seen,
                                       value |-> Arr(S1.pars[p].resultArray)])],
                       <<CallInvoke(S1.pars[p].cb, NoErr, Arr(S1.pars[p].resultArray))>>)
             ELSE S1

\* the function (err, values) that map's deserializer hands to list
\* (src/serializr.js 924-943)
MapAggregate(S, m, err, values) ==
    LET keys == S.maps[m].keys
        oldValue == S.maps[m].oldValue
        done == S.maps[m].done
        entries == [i \in 1..Len(keys) |-> [key |-> keys[i], val |-> values.v[i]]]
    IN  IF err.e # "" THEN Push(S, <<CallInvoke(done, err, Undefined)>>)
        ELSE IF oldValue.k = "mapref"
        THEN Push([S EXCEPT !.heap[oldValue.v].entries = entries],
                  <<CallInvoke(done, NoErr, oldValue)>>)
        ELSE Push(S, <<CallInvoke(done, NoErr, Obj(entries))>>)

\* a call of a function value
Invoke(S, cont, err, value) ==
    CASE cont.k = "user" -> UserCompletion(S, cont, err, value)
      [] cont.k = "noop" -> IF err.e # "" THEN Throw(S, err.e) ELSE S
      [] cont.k = "ctxcb" -> CallbackWrapper(S, cont.id, err, value)
      [] cont.k = "par" -> processorCb(S, cont.id, cont.idx, err, value)
      [] cont.k = "map" -> MapAggregate(S, cont.id, err, value)
      [] OTHER -> Throw(S, "TypeError: callback is not a function")

(***************************************************************************)
(* await and resolve (src/serializr.js 472-509).                           *)
(***************************************************************************)
\* await that takes the last assignable entry of resolvedRefs[uuid]
await_last(S, c, modelSchema, uuid, callback) ==
    IF ~S.ctxs[c].isRoot THEN Throw(S, "[serializr] Illegal State")
    ELSE
      LET resolved == S.ctxs[c].resolvedRefs[uuid]
          match == {i \in 1..Len(resolved) : isAssignableTo(resolved[i].modelSchema, modelSchema)}
      IN  IF match # {}
          THEN Push(S, <<CallInvoke(callback, NoErr,
                           resolved[CHOOSE i \in match : \A j \in match : i >= j].value)>>)
          ELSE [S EXCEPT !.ctxs[c].pendingRefsCount = @ + 1,
                         !.ctxs[c].enqueued = @ + 1,
                         !.ctxs[c].pendingRefs[uuid] =
                            Append(@, [modelSchema |-> modelSchema, uuid |-> uuid,
                                       callback |-> callback])]

await(S, c, modelSchema, uuid, callback) ==
    IF ~S.ctxs[c].isRoot THEN Throw(S, "[serializr] Illegal State")
    ELSE
      LET resolved == S.ctxs[c].resolvedRefs[uuid]
          match == {i \in 1..Len(resolved) : isAssignableTo(resolved[i].modelSchema, modelSchema)}
      IN  IF match # {}
          THEN Push(S, <<CallInvoke(callback, NoErr,
                           resolved[CHOOSE i \in match : \A j \in match : i <= j].value)>>)
          ELSE [S EXCEPT !.ctxs[c].pendingRefsCount = @ + 1,
                         !.ctxs[c].enqueued = @ + 1,
                         !.ctxs[c].pendingRefs[uuid] =
                            Append(@, [modelSchema |-> modelSchema, uuid |-> uuid,
                                       callback |-> callback])]

\* the loop of resolve that removes an entry without counting it
resolveLoop_keepCount(S, c, modelSchema, uuid, value, i) ==
    IF i < 1 THEN S
    ELSE IF i > Len(S.ctxs[c].pendingRefs[uuid])
    THEN Throw(S, "TypeError: opts is undefined")
    ELSE
      LET opts == S.ctxs[c].pendingRefs[uuid][i] IN
      IF isAssignableTo(modelSchema, opts.modelSchema)
      THEN Push([S EXCEPT !.ctxs[c].pendingRefs[uuid] = Splice(@, i)],
                <<CallInvoke(opts.callback, NoErr, value),
                  CallResolveLoop(c, modelSchema, uuid, value, i - 1)>>)
      ELSE Push(S, <<CallResolveLoop(c, modelSchema, uuid, value, i - 1)>>)

\* the loop of resolve that stops at the first assignable entry
resolveLoop_first(S, c, modelSchema, uuid, value, i) ==
    IF i < 1 THEN S
    ELSE IF i > Len(S.ctxs[c].pendingRefs[uuid])
    THEN Throw(S, "TypeError: opts is undefined")
    ELSE
      LET opts == S.ctxs[c].pendingRefs[uuid][i] IN
      IF isAssignableTo(modelSchema, opts.modelSchema)
      THEN Push([S EXCEPT !.ctxs[c].pendingRefs[uuid] = Splice(@, i),
                          !.ctxs[c].pendingRefsCount = @ - 1],
                <<CallInvoke(opts.callback, NoErr, value)>>)
      ELSE Push(S, <<CallResolveLoop(c, modelSchema, uuid, value, i - 1)>>)

resolveLoop(S, c, modelSchema, uuid, value, i) ==
    IF i < 1 THEN S
    ELSE IF i > Len(S.ctxs[c].pendingRefs[uuid])
    THEN Throw(S, "TypeError: opts is undefined")
    ELSE
      LET opts == S.ctxs[c].pendingRefs[uuid][i] IN
      IF isAssignableTo(modelSchema, opts.modelSchema)
      THEN Push([S EXCEPT !.ctxs[c].pendingRefs[uuid] = Splice(@, i),
                          !.ctxs[c].pendingRefsCount = @ - 1],
                <<CallInvoke(opts.callback, NoErr, value),
                  CallResolveLoop(c, modelSchema, uuid, value, i - 1)>>)
      ELSE Push(S, <<CallResolveLoop(c, modelSchema, uuid, value, i - 1)>>)

resolve(S, c, modelSchema, uuid, value) ==
    IF ~S.ctxs[c].isRoot THEN Throw(S, "[serializr] Illegal State")
    ELSE
      LET S1 == [S EXCEPT !.ctxs[c].resolvedRefs[uuid] =
                              Append(@, [modelSchema |-> modelSchema, value |-> value])]
      IN  Push(S1, <<CallResolveLoop(c, modelSchema, uuid, value,
                                     Len(S1.ctxs[c].pendingRefs[uuid]))>>)

(***************************************************************************)
(* parallel (src/serializr.js 29-51).  The processor is the list           *)
(* deserializer's (an element prop schema and its context) or the one of   *)
(* deserialize for a JSON array (a model schema).                          *)
(***************************************************************************)
ListProcessor(propSchema, context) ==
    [k |-> "list", prop |-> propSchema, ctx |-> context, schema |-> ""]
TopProcessor(schema) ==
    [k |-> "top", prop |-> primitive, ctx |-> 0, schema |-> schema]

\* the processor of deserialize pushing before the instance is made
Processor_pushFirst(proc, value, itemDone) ==
    IF proc.k = "list"
    THEN <<CallDeserializer(proc.prop, value, itemDone, proc.ctx, Undefined)>>
    ELSE <<CallPushItem, CallDeserializeObject(0, proc.schema, value, itemDone)>>

\* processor(value, processorCb.bind(null, idx))
Processor(proc, value, itemDone) ==
    IF proc.k = "list"
    THEN <<CallDeserializer(proc.prop, value, itemDone, proc.ctx, Undefined)>>
    ELSE <<CallDeserializeObject(0, proc.schema, value, itemDone), CallPushItem>>

ParallelLoop(S, ar, proc, p, idx) ==
    IF idx > Len(ar) THEN S
    ELSE Push(S, Processor(proc, ar[idx], Cont("par", p, idx))
                 \o <<CallParallelLoop(ar, proc, p, idx + 1)>>)

parallel(S, ar, proc, cb) ==
    IF Len(ar) = 0 THEN Push(S, <<CallInvoke(cb, NoErr, Arr(<<>>))>>)
    ELSE LET S1 == [S EXCEPT !.pars = Append(@,
                        [left |-> Len(ar), resultArray |-> <<>>, failed |-> FALSE,
                         cb |-> cb, ar |-> ar, kind |-> proc.k, inner |-> proc.prop.k,
                         fn |-> IF proc.prop.k = "lookup" THEN proc.prop.arg ELSE "",
                         seen |-> <<>>, errs |-> <<>>, agg |-> <<>>])]
         IN  Push(S1, <<CallParallelLoop(ar, proc, Len(S1.pars), 1)>>)

(***************************************************************************)
(* The deserializers of the built-in prop schemas.                         *)
(***************************************************************************)
\* Object.keys of an array: its indices as strings
IndexKey(i) == CASE i = 1 -> "0" [] i = 2 -> "1" [] i = 3 -> "2" [] OTHER -> "3"

PrimitiveError == Err("[serializr] this value is not primitive")

\* a primitive deserializer that hands on whatever it is given
primitiveDeserializer_any(S, jsonValue, done) ==
    Push(S, <<CallInvoke(done, NoErr, jsonValue)>>)

\* primitive().deserializer (src/serializr.js 572-576)
primitiveDeserializer(S, jsonValue, done) ==
    IF ~isPrimitive(jsonValue) THEN Push(S, <<CallInvoke(done, PrimitiveError, Undefined)>>)
    ELSE Push(S, <<CallInvoke(done, NoErr, jsonValue)>>)

\* the identifier deserializer that calls done before the awaiters of the
\* identifier are resolved
identifierDeserializer_doneFirst(S, jsonValue, done, context) ==
    LET err == IF isPrimitive(jsonValue) THEN NoErr ELSE PrimitiveError
        id == IF isPrimitive(jsonValue) THEN jsonValue ELSE Undefined
        root == S.ctxs[context].rootContext
        value == Ref(S.ctxs[context].target)
    IN  IF ~S.ctxs[root].isRoot THEN Throw(S, "[serializr] Illegal State")
        ELSE Push([S EXCEPT !.ctxs[root].resolvedRefs[KeyOf(id)] =
                                Append(@, [modelSchema |-> S.ctxs[context].modelSchema,
                                           value |-> value])],
                  <<CallInvoke(done, err, id),
                    CallResolveLoop(root, S.ctxs[context].modelSchema, KeyOf(id), value,
                                    Len(S.ctxs[root].pendingRefs[KeyOf(id)]))>>)

\* identifier().deserializer (src/serializr.js 618-625): the function given
\* to the primitive deserializer registers the target and then calls done
identifierDeserializer(S, jsonValue, done, context) ==
    LET err == IF isPrimitive(jsonValue) THEN NoErr ELSE PrimitiveError
        id == IF isPrimitive(jsonValue) THEN jsonValue ELSE Undefined
    IN  resolve(Push(S, <<CallInvoke(done, err, id)>>),
                S.ctxs[context].rootContext, S.ctxs[context].modelSchema,
                KeyOf(id), Ref(S.ctxs[context].target))

\* reference(schema).deserializer with the default lookup
\* (src/serializr.js 824-837)
referenceDeserializer(S, propSchema, identifierValue, done, context) ==
    IF isNullish(identifierValue) THEN Push(S, <<CallInvoke(done, NoErr, identifierValue)>>)
    ELSE await(S, S.ctxs[context].rootContext, propSchema.arg, KeyOf(identifierValue), done)

\* reference(name, lookupFn).deserializer: the user's lookupFn keeps done
lookupDeserializer(S, propSchema, identifierValue, done) ==
    IF isNullish(identifierValue) THEN Push(S, <<CallInvoke(done, NoErr, identifierValue)>>)
    ELSE [S EXCEPT !.async = @ \cup {[done |-> done, fn |-> propSchema.arg,
                                      arg |-> identifierValue]}]

\* list(propSchema).deserializer (src/serializr.js 873-883)
listDeserializer(S, propSchema, jsonArray, done, context) ==
    IF jsonArray.k # "arr"
    THEN Push(S, <<CallInvoke(done, Err("[serializr] expected JSON array"), Undefined)>>)
    ELSE parallel(S, jsonArray.v, ListProcessor(propSchema.arg, context), done)

\* map(propSchema).deserializer (src/serializr.js 916-946)
mapDeserializer(S, propSchema, jsonObject, done, context, oldValue) ==
    IF jsonObject.k \notin {"obj", "arr"}
    THEN Push(S, <<CallInvoke(done, Err("[serializr] expected JSON object"), Undefined)>>)
    ELSE LET pairs == IF jsonObject.k = "obj" THEN jsonObject.v
                      ELSE [i \in 1..Len(jsonObject.v) |->
                               [key |-> IndexKey(i), val |-> jsonObject.v[i]]]
             keys == [i \in 1..Len(pairs) |-> pairs[i].key]
             values == [i \in 1..Len(pairs) |-> pairs[i].val]
             S1 == [S EXCEPT !.maps = Append(@, [keys |-> keys, oldValue |-> oldValue,
                                                 done |-> done])]
         IN  parallel(S1, values, ListProcessor(propSchema.arg, context),
                      Cont("map", Len(S1.maps), 0))

\* object(schema).deserializer (src/serializr.js 747-751)
objectDeserializer(S, propSchema, childJson, done, context) ==
    IF isNullish(childJson) THEN Push(S, <<CallInvoke(done, NoErr, childJson)>>)
    ELSE Push(S, <<CallDeserializeObject(context, propSchema.arg, childJson, done)>>)

\* the functions a program passes to custom(serializer, deserializer)
UserFn(name, value) ==
    IF value.k # "prim" THEN value
    ELSE IF name = "plus100" THEN Prim(value.v + 100) ELSE Prim(value.v - 100)

\* new Date(jsonValue): the time of a number, an invalid date otherwise
InvalidTime == -1
NewDate(jsonValue) == IF jsonValue.k = "prim" THEN Date(jsonValue.v) ELSE Date(InvalidTime)

\* date().deserializer handing on the number it was given
dateDeserializer_raw(S, jsonValue, done) ==
    Push(S, <<CallInvoke(done, NoErr, jsonValue)>>)

\* date().deserializer (src/serializr.js 648-652)
dateDeserializer(S, jsonValue, done) ==
    IF isNullish(jsonValue) THEN Push(S, <<CallInvoke(done, NoErr, jsonValue)>>)
    ELSE Push(S, <<CallInvoke(done, NoErr, NewDate(jsonValue))>>)

\* custom(serializer, deserializer).deserializer (src/serializr.js 707-709)
customDeserializer(S, propSchema, jsonValue, done) ==
    Push(S, <<CallInvoke(done, NoErr, UserFn(propSchema.arg[2], jsonValue))>>)

DeserProp(S, propSchema, jsonValue, done, context, oldValue) ==
    CASE propSchema.k = "primitive" -> primitiveDeserializer(S, jsonValue, done)
      [] propSchema.k = "date" -> dateDeserializer(S, jsonValue, done)
      [] propSchema.k = "custom" -> customDeserializer(S, propSchema, jsonValue, done)
      [] propSchema.k = "identifier" -> identifierDeserializer(S, jsonValue, done, context)
      [] propSchema.k = "reference" ->
            referenceDeserializer(S, propSchema, jsonValue, done, context)
      [] propSchema.k = "lookup" -> lookupDeserializer(S, propSchema, jsonValue, done)
      [] propSchema.k = "list" -> listDeserializer(S, propSchema, jsonValue, done, context)
      [] propSchema.k = "map" ->
            mapDeserializer(S, propSchema, jsonValue, done, context, oldValue)
      [] propSchema.k = "object" -> objectDeserializer(S, propSchema, jsonValue, done, context)

(***************************************************************************)
(* deserializeStarProps / schemaHasAlias (src/serializr.js 407-420).       *)
(***************************************************************************)
InProps(schema, key) ==
    \E i \in 1..Len(ModelSchema(schema).props) : ModelSchema(schema).props[i].name = key

schemaHasAlias(schema, name) ==
    \E i \in 1..Len(ModelSchema(schema).props) : ModelSchema(schema).props[i].def.jsonname = name

RECURSIVE StarLoop(_, _, _, _, _)
StarLoop(S, schema, obj, json, i) ==
    IF json.k # "obj" \/ i > Len(json.v) THEN S
    ELSE IF InProps(schema, json.v[i].key) \/ schemaHasAlias(schema, json.v[i].key)
    THEN StarLoop(S, schema, obj, json, i + 1)
    ELSE IF ~isPrimitive(json.v[i].val)
    THEN Throw(S, "[serializr] encountered non primitive value while deserializing '*' properties")
    ELSE StarLoop([S EXCEPT !.heap[obj].fields[json.v[i].key] = json.v[i].val],
                  schema, obj, json, i + 1)

deserializeStarProps(S, schema, obj, json) == StarLoop(S, schema, obj, json, 1)

(***************************************************************************)
(* deserializePropsWithSchema (src/serializr.js 376-405).                  *)
(***************************************************************************)
PropsLoop(S, context, schema, json, target, i) ==
    IF i > Len(ModelSchema(schema).props) THEN S
    ELSE
      LET propName == ModelSchema(schema).props[i].name
          raw == ModelSchema(schema).props[i].def
          propDef == IF raw.k = "true" THEN [primitive EXCEPT !.jsonname = raw.jsonname] ELSE raw
          jsonAttr == IF propDef.jsonname # "" THEN propDef.jsonname ELSE propName
          next == <<CallPropsLoop(context, schema, json, target, i + 1)>>
      IN  IF propName = "*"
          THEN IF raw.k # "true"
               THEN Throw(S, "[serializr] prop schema '*' can onle be used with 'true'")
               ELSE Push(deserializeStarProps(S, schema, target, json), next)
          ELSE IF raw.k = "false" THEN Push(S, next)
          ELSE IF json.k \notin {"obj", "arr"}
          THEN Throw(S, "TypeError: cannot use 'in' operator")
          ELSE IF ~HasKey(json, jsonAttr) THEN Push(S, next)
          ELSE LET S1 == createCallback(S, S.ctxs[context].rootContext,
                                        AssignFn(target, propName))
               IN  Push(S1, <<CallDeserializer(propDef, Get(json, jsonAttr),
                                               Cont("ctxcb", Len(S1.cbs), 0), context,
                                               S.heap[target].fields[propName])>>
                            \o next)

\* the walk with the props of the child before those of its parent
deserializePropsWithSchema_childFirst(S, context, schema, json, target) ==
    IF ModelSchema(schema).extends # ""
    THEN Push(S, <<CallPropsLoop(context, schema, json, target, 1),
                   CallDeserializeProps(context, ModelSchema(schema).extends, json, target)>>)
    ELSE Push(S, <<CallPropsLoop(context, schema, json, target, 1)>>)

deserializePropsWithSchema(S, context, schema, json, target) ==
    IF ModelSchema(schema).extends # ""
    THEN Push(S, <<CallDeserializeProps(context, ModelSchema(schema).extends, json, target),
                   CallPropsLoop(context, schema, json, target, 1)>>)
    ELSE Push(S, <<CallPropsLoop(context, schema, json, target, 1)>>)

(***************************************************************************)
(* deserializeObjectWithSchema (src/serializr.js 361-374).                 *)
(***************************************************************************)
NewObject(schema) ==
    [schema |-> schema, fields |-> [p \in PropNames |-> Undefined], entries |-> <<>>]

\* schema.factory(context): the default factory, new clazz() or {}
factory(S, schema) == [S EXCEPT !.heap = Append(@, NewObject(schema))]

deserializeObjectWithSchema(S, parentContext, schema, json, callback) ==
    IF isNullish(json)
    THEN Push(S, <<CallInvoke(callback, NoErr, Null), CallReturn(Undefined)>>)
    ELSE
      LET S1 == Context(S, parentContext, schema, json, callback)
          context == Len(S1.ctxs)
          S2 == factory(S1, schema)
          target == Len(S2.heap)
          S3 == [S2 EXCEPT !.ctxs[context].target = target]
          S4 == createCallback(S3, context, NoopFn)
          lock == Cont("ctxcb", Len(S4.cbs), 0)
      IN  Push(S4, <<CallDeserializeProps(context, schema, json, target),
                     CallInvoke(lock, NoErr, Undefined),
                     CallReturn(Ref(target))>>)

(***************************************************************************)
(* Running the stack: one frame at a time until the synchronous call has   *)
(* returned or thrown.                                                     *)
(***************************************************************************)
Step(S, f) ==
    CASE f.op = "invoke" -> Invoke(S, f.cont, f.err, f.value)
      [] f.op = "resolveLoop" -> resolveLoop(S, f.c, f.modelSchema, f.uuid, f.value, f.i)
      [] f.op = "deserializer" ->
            DeserProp(S, f.propSchema, f.jsonValue, f.done, f.context, f.oldValue)
      [] f.op = "parallelLoop" -> ParallelLoop(S, f.ar, f.proc, f.p, f.idx)
      [] f.op = "pushItem" -> [S EXCEPT !.items = Append(@, S.rv)]
      [] f.op = "deserializeObject" ->
            deserializeObjectWithSchema(S, f.parentContext, f.schema, f.json, f.callback)
      [] f.op = "deserializeProps" ->
            deserializePropsWithSchema(S, f.context, f.schema, f.json, f.target)
      [] f.op = "propsLoop" -> PropsLoop(S, f.context, f.schema, f.json, f.target, f.i)
      [] f.op = "return" -> [S EXCEPT !.rv = f.value]

RECURSIVE Run(_)
Run(S) ==
    IF S.exc # "" \/ Len(S.stack) = 0 THEN S
    ELSE Run(Step([S EXCEPT !.stack = Tail(@)], Head(S.stack)))

(***************************************************************************)
(* deserialize and update (src/serializr.js 341-359, 525-544).             *)
(***************************************************************************)
deserialize(S, schema, json, callback) ==
    IF json.k = "arr"
    THEN LET S1 == Run(parallel([S EXCEPT !.items = <<>>], json.v, TopProcessor(schema),
                                IF callback = NoCallback THEN GUARDED_NOOP ELSE callback))
         IN  IF S1.exc # "" THEN S1 ELSE [S1 EXCEPT !.rv = Arr(S1.items)]
    ELSE Run(Push(S, <<CallDeserializeObject(0, schema, json, callback)>>))

\* update that empties the target before the walk
update_clear(S, modelSchema, target, json, callback) ==
    LET S1 == Context([S EXCEPT !.heap[target] = NewObject(modelSchema)],
                      0, modelSchema, json, callback)
        context == Len(S1.ctxs)
        S2 == [S1 EXCEPT !.ctxs[context].target = target]
        S3 == createCallback(S2, context, NoopFn)
        lock == Cont("ctxcb", Len(S3.cbs), 0)
    IN  Run(Push(S3, <<CallDeserializeProps(context, modelSchema, json, target),
                       CallInvoke(lock, NoErr, Undefined),
                       CallReturn(Undefined)>>))

update(S, modelSchema, target, json, callback) ==
    LET S1 == Context(S, 0, modelSchema, json, callback)
        context == Len(S1.ctxs)
        S2 == [S1 EXCEPT !.ctxs[context].target = target]
        S3 == createCallback(S2, context, NoopFn)
        lock == Cont("ctxcb", Len(S3.cbs), 0)
    IN  Run(Push(S3, <<CallDeserializeProps(context, modelSchema, json, target),
                       CallInvoke(lock, NoErr, Undefined),
                       CallReturn(Undefined)>>))

(***************************************************************************)
(* serialize (src/serializr.js 269-322) for the prop schemas whose         *)
(* serializer needs no other object: primitive, identifier, date, custom   *)
(* and their aliases.  An in-memory object is given by its own properties, *)
(* as a JSON object is; a result is the JSON value or the message of the   *)
(* exception thrown.                                                       *)
(***************************************************************************)
Returned(value) == [threw |-> "", value |-> value]
Threw(message) == [threw |-> message, value |-> Undefined]

\* obj[key]
Read(obj, key) == IF HasKey(obj, key) THEN Get(obj, key) ELSE Undefined

\* res[key] = value on the pairs of a plain object
SetKey(pairs, key, value) ==
    IF \E i \in 1..Len(pairs) : pairs[i].key = key
    THEN [i \in 1..Len(pairs) |->
             IF pairs[i].key = key THEN [key |-> key, val |-> value] ELSE pairs[i]]
    ELSE Append(pairs, [key |-> key, val |-> value])

\* propDef.serializer(value) (src/serializr.js 568-571, 641-646, 705)
serializer(propSchema, value) ==
    CASE propSchema.k \in {"primitive", "identifier"} ->
            IF isPrimitive(value) THEN Returned(value)
            ELSE Threw("[serializr] this value is not primitive")
      [] propSchema.k = "date" ->
            IF isNullish(value) THEN Returned(value)
            ELSE IF value.k = "date" THEN Returned(Prim(value.v))
            ELSE Threw("[serializr] Expected Date object")
      [] propSchema.k = "custom" -> Returned(UserFn(propSchema.arg[1], value))

\* serializeStarProps(schema, obj, target) (src/serializr.js 316-322)
RECURSIVE serializeStarProps(_, _, _, _)
serializeStarProps(schema, obj, target, i) ==
    IF target.threw # "" \/ i > Len(obj.v) THEN target
    ELSE IF InProps(schema, obj.v[i].key)
    THEN serializeStarProps(schema, obj, target, i + 1)
    ELSE IF ~isPrimitive(obj.v[i].val)
    THEN Threw("[serializr] encountered non primitive value while serializing '*' properties")
    ELSE serializeStarProps(schema, obj,
            Returned(SetKey(target.value, obj.v[i].key, obj.v[i].val)), i + 1)

\* Object.keys(schema.props).forEach of serializeWithSchema, from prop i
RECURSIVE SerializeLoop(_, _, _, _)
SerializeLoop(schema, obj, res, i) ==
    IF res.threw # "" \/ i > Len(ModelSchema(schema).props) THEN res
    ELSE
      LET key == ModelSchema(schema).props[i].name
          raw == ModelSchema(schema).props[i].def
          propDef == IF raw.k = "true" THEN [primitive EXCEPT !.jsonname = raw.jsonname] ELSE raw
          jsonValue == serializer(propDef, Read(obj, key))
      IN  IF key = "*"
          THEN IF raw.k # "true"
               THEN Threw("[serializr] prop schema '*' can onle be used with 'true'")
               ELSE SerializeLoop(schema, obj, serializeStarProps(schema, obj, res, 1), i + 1)
          ELSE IF raw.k = "false" THEN SerializeLoop(schema, obj, res, i + 1)
          ELSE IF jsonValue.threw # "" THEN jsonValue
          ELSE SerializeLoop(schema, obj,
                  Returned(SetKey(res.value,
                                  IF propDef.jsonname # "" THEN propDef.jsonname ELSE key,
                                  jsonValue.value)),
                  i + 1)

RECURSIVE serializeWithSchema(_, _)
serializeWithSchema(schema, obj) ==
    IF obj.k # "obj" THEN Threw("[serializr] Expected object")
    ELSE SerializeLoop(schema, obj,
            IF ModelSchema(schema).extends # ""
            THEN serializeWithSchema(ModelSchema(schema).extends, obj)
            ELSE Returned(<<>>),
            1)

\* serialize(schema, thing) for a thing that is not an array
serialize(schema, thing) ==
    LET res == serializeWithSchema(schema, thing)
    IN  IF res.threw # "" THEN res ELSE Returned(Obj(res.value))

(***************************************************************************)
(* The explored inputs: JSON documents for the schemas above.              *)
(***************************************************************************)
SeqsUpTo(Elems, n) == UNION {[1..m -> Elems] : m \in 0..n}

Opt(key, val) == IF val = Absent THEN <<>> ELSE <<[key |-> key, val |-> val]>>

NodeJson(uuid, author, coauthors, editor, links, msg, tags) ==
    Obj(Opt("uuid", uuid) \o Opt("author", author) \o Opt("coauthors", coauthors)
        \o Opt("editor", editor) \o Opt("links", links) \o Opt("msg", msg)
        \o Opt("tags", tags))

PrimIds == {Prim(i) : i \in Ids}
OptId == {Absent} \cup PrimIds
IdArrays == {Arr(s) : s \in SeqsUpTo(PrimIds, MaxLen)}
\* the arrays of identifiers taken up to the order of their identifiers: those
\* given to a list of user lookups, which only pass the identifier on, and
\* those of the elements of an array of objects
SortedIdArrays ==
    {d \in IdArrays : \A i \in 1..Len(d.v) : \A j \in i..Len(d.v) : d.v[i].v <= d.v[j].v}
Msgs == {Absent, Prim(7), Arr(<<>>)}
TagKeys == <<"a", "b", "c", "d">>
TagMaps == {Obj([i \in 1..Len(s) |-> [key |-> TagKeys[i], val |-> s[i]]]) :
                s \in SeqsUpTo(PrimIds, MaxLen)}

\* objects that publish an identifier and / or refer to one
RefNodes ==
    {NodeJson(u, a, Absent, Absent, Absent, Absent, Absent) : u \in OptId, a \in OptId}
    \cup {NodeJson(Absent, Absent, c, Absent, Absent, m, Absent) :
              c \in IdArrays, m \in {Absent, Prim(7)}}

\* objects with properties that complete asynchronously (user lookups)
AsyncNodes ==
    {NodeJson(Absent, Absent, Absent, e, l, m, Absent) :
         e \in {Absent, Prim(1)}, l \in {Absent} \cup SortedIdArrays, m \in Msgs}
    \cup {NodeJson(Absent, Absent, Absent, Absent, Absent, m, t) : m \in Msgs, t \in TagMaps}
    \cup {NodeJson(u, Absent, c, Prim(1), Absent, Absent, Absent) : u \in OptId, c \in IdArrays}

\* objects with a value of the wrong shape: a list given a non-array, a map
\* given a non-object, a primitive given a non-primitive
MismatchNodes ==
    {NodeJson(u, Absent, c, e, l, m, t) :
        u \in {Absent, Prim(1)}, c \in {Absent, Obj(<<>>)}, e \in {Absent, Prim(1)},
        l \in {Absent, Prim(7)}, m \in {Absent, Arr(<<>>)}, t \in {Absent, Prim(7), Null}}

\* elements of a JSON array of objects
ElemNodes ==
    {NodeJson(u, Absent, Absent, Absent, Absent, Absent, Absent) : u \in PrimIds}
    \cup {NodeJson(Absent, a, Absent, Absent, Absent, Absent, Absent) : a \in PrimIds}
    \cup {NodeJson(Absent, Absent, c, Absent, Absent, Absent, Absent) :
              c \in {d \in SortedIdArrays : Len(d.v) = MaxLen /\ d.v[1] = Prim(1)}}
    \cup {Null,
          NodeJson(Absent, Absent, Absent, Prim(1), Absent, Absent, Absent),
          NodeJson(Absent, Absent, Absent, Absent, Absent, Arr(<<>>), Absent)}

NodeArrays == {Arr(s) : s \in SeqsUpTo(ElemNodes, MaxItems)}

\* a second list that holds one object publishing an identifier
Publishers ==
    {Arr(<<NodeJson(Prim(1), Absent, Absent, Absent, Absent, Absent, Absent)>>)}

ChildJson(x, y, why, msg) ==
    Obj(Opt("x", x) \o Opt("y", y) \o Opt("why", why) \o Opt("msg", msg))
ChildDocs == {ChildJson(x, y, w, m) :
                 x \in OptId, y \in {Absent, Prim(7)}, w \in {Absent, Prim(8)}, m \in Msgs}

BagDocs == {Obj(Opt("m", m) \o Opt("extra", e) \o Opt("y", y)) :
                m \in {Absent, Prim(7)}, e \in Msgs, y \in {Absent, Prim(8)}}
           \cup {Obj(<<[key |-> "m", val |-> Arr(<<>>)], [key |-> "extra", val |-> Prim(7)]>>)}

\* documents with an object in an object in an object
LibDocs ==
    {Obj(<<[key |-> "doc", val |-> d]>>) :
        d \in {Null, Obj(<<[key |-> "msg", val |-> Prim(7)]>>)}
               \cup {Obj(<<[key |-> "items", val |-> Arr(<<e>>)]>>) :
                        e \in {NodeJson(Absent, Absent, Absent, Absent, Absent, Prim(7), Absent),
                                NodeJson(Absent, Absent, Absent, Prim(1), Absent, Absent, Absent),
                                NodeJson(Prim(1), Absent, Absent, Absent, Absent, Absent, Absent),
                                NodeJson(Absent, Prim(1), Absent, Absent, Absent, Absent, Absent)}}}

\* documents whose references await a schema, a schema that extends it and
\* whose objects publish identifiers under those and an unrelated schema
SceneDocs ==
    {Obj(Opt("wantsShape", ws) \o Opt("wantsCircle", wc) \o Opt("shape", sh)
         \o Opt("circle", ci) \o Opt("node", n) \o Opt("lateShape", ls)
         \o Opt("lateCircle", lc)) :
        ws \in {Absent, Prim(1)}, wc \in {Absent, Prim(1)},
        sh \in {Absent, Obj(<<[key |-> "uuid", val |-> Prim(1)]>>)},
        ci \in {Absent} \cup {Obj(<<[key |-> "uuid", val |-> u]>>) : u \in PrimIds},
        n \in {Absent, Obj(<<[key |-> "uuid", val |-> Prim(1)]>>)},
        ls \in {Absent, Prim(1)}, lc \in {Absent, Prim(1)}}

\* objects whose identifier is an array
UndecodedNodes ==
    {NodeJson(Arr(<<>>), Absent, Absent, Absent, Absent, m, Absent) : m \in {Absent, Prim(7)}}

\* the (schema, json) pairs given to deserialize
DeserializeInputs ==
    {<<"Node", j>> : j \in RefNodes \cup AsyncNodes \cup NodeArrays \cup {Null}}
    \cup {<<"Node", j>> : j \in MismatchNodes \cup UndecodedNodes}
    \cup {<<"Doc", Obj(<<[key |-> "items", val |-> Prim(7)]>>)>>}
    \cup {<<"Doc", Obj(Opt("items", a) \o Opt("more", b))>> :
              a \in NodeArrays, b \in {Absent} \cup Publishers}
    \cup {<<"Child", j>> : j \in ChildDocs}
    \cup {<<"Base", j>> : j \in ChildDocs}
    \cup {<<"Bag", j>> : j \in BagDocs}
    \cup {<<"Lib", j>> : j \in LibDocs}
    \cup {<<"Scene", j>> : j \in SceneDocs}

\* the (schema, json) pairs given to update
UpdateInputs ==
    {<<"Node", j>> : j \in RefNodes \cup AsyncNodes}
    \cup {<<"Child", j>> : j \in ChildDocs}
    \cup {<<"Bag", j>> : j \in BagDocs}

\* the objects given to update as target: untouched or filled
OldValue == Prim(9)
Targets(schema) ==
    {NewObject(schema),
     [NewObject(schema) EXCEPT !.fields = [p \in PropNames |-> OldValue]]}

(***************************************************************************)
(* The registry of default model schemas (src/serializr.js 112-227): every *)
(* class holds its default schema in the static property serializeInfo.    *)
(* A model schema is identified by the class it was made for and the       *)
(* number of schemas made before it; a simple schema has no class.         *)
(***************************************************************************)
MaxSchemas == 2

Classes == {"Animal", "Dog", "Plain"}

\* the class that a class extends ("" for none): static properties are
\* inherited along it
SuperClass(clazz) == IF clazz = "Dog" THEN "Animal" ELSE ""

NoSchema == [targetClass |-> "", n |-> 0, extends |-> <<>>]

\* a model schema object; extends names the parent schema
Schema(targetClass, n, parent) ==
    [targetClass |-> targetClass, n |-> n,
     extends |-> IF parent = NoSchema THEN <<>> ELSE <<parent.targetClass, parent.n>>]

\* createSimpleSchema(props) (src/serializr.js 79-86)
createSimpleSchema(n) == Schema("", n, NoSchema)

\* the things given to the registry functions
TheClass(clazz) == [k |-> "class", v |-> clazz, schema |-> NoSchema]
InstanceOfClass(clazz) == [k |-> "instance", v |-> clazz, schema |-> NoSchema]
TheSchema(schema) == [k |-> "schema", v |-> "", schema |-> schema]
NoThing == [k |-> "undef", v |-> "", schema |-> NoSchema]

\* the result of a registry function: a schema, null or undefined
Found(schema) == [k |-> "schema", schema |-> schema]
NullResult == [k |-> "null", schema |-> NoSchema]
UndefinedResult == [k |-> "undef", schema |-> NoSchema]

\* clazz.serializeInfo: the class's own property or an inherited one
RECURSIVE serializeInfo(_, _)
serializeInfo(info, clazz) ==
    IF clazz = "" THEN NoSchema
    ELSE IF info[clazz] # NoSchema THEN info[clazz]
    ELSE serializeInfo(info, SuperClass(clazz))

\* getDefaultModelSchema(thing) (src/serializr.js 192-201)
getDefaultModelSchema(info, thing) ==
    IF thing.k = "undef" THEN NullResult
    ELSE IF thing.k = "schema" THEN Found(thing.schema)
    ELSE IF serializeInfo(info, thing.v) # NoSchema THEN Found(serializeInfo(info, thing.v))
    ELSE UndefinedResult

\* isModelSchema applied to a result of getDefaultModelSchema
isModelSchema(result) == result.k = "schema"

\* setDefaultModelSchema(clazz, modelSchema) (src/serializr.js 214-217)
setDefaultModelSchema(R, clazz, modelSchema) ==
    [R EXCEPT !.info[clazz] = modelSchema, !.result = Found(modelSchema)]

\* createModelSchema(clazz, props, factory) (src/serializr.js 112-130)
createModelSchema(R, clazz) ==
    LET s == getDefaultModelSchema(R.info, TheClass(clazz))
        parent == IF isModelSchema(s) /\ s.schema.targetClass # clazz THEN s.schema
                  ELSE NoSchema
        model == Schema(clazz, R.made + 1, parent)
    IN  [setDefaultModelSchema(R, clazz, model) EXCEPT !.made = @ + 1]

\* the schema captured by object(modelSchema) and reference(target) when the
\* prop schema is constructed (src/serializr.js 738-740, 813-815)
construct(R, kind, thing) ==
    LET modelSchema == getDefaultModelSchema(R.info, thing) IN
    IF ~isModelSchema(modelSchema)
    THEN [R EXCEPT !.threw = "[serializr] expected modelSchema",
                   !.result = UndefinedResult]
    ELSE [R EXCEPT !.props = Append(@, [kind |-> kind, thing |-> thing,
                                        modelSchema |-> modelSchema.schema]),
                   !.result = UndefinedResult]

\* the functions of the exported API object (src/serializr.js 953-973)
Exported(name) ==
    CASE name = "createModelSchema" -> "createModelSchema"
      [] name = "setDefaultModelSchema" -> "getDefaultModelSchema"
      [] name = "getDefaultModelSchema" -> "getDefaultModelSchema"
      [] name = "object" -> "object"
      [] name = "child" -> "object"
      [] name = "reference" -> "reference"
      [] name = "ref" -> "reference"

\* a call api.name(thing, modelSchema)
CallExported(R, name, thing, modelSchema) ==
    LET fn == Exported(name)
        R0 == [R EXCEPT !.op = name, !.thing = thing, !.arg = modelSchema, !.threw = ""]
    IN  CASE fn = "createModelSchema" -> createModelSchema(R0, thing.v)
          [] fn = "setDefaultModelSchema" -> setDefaultModelSchema(R0, thing.v, modelSchema)
          [] fn = "getDefaultModelSchema" ->
                [R0 EXCEPT !.result = getDefaultModelSchema(R0.info, thing)]
          [] fn = "object" -> construct(R0, "object", thing)
          [] fn = "reference" -> construct(R0, "reference", thing)

NoRegistry ==
    [info |-> [c \in Classes |-> NoSchema], made |-> 0, props |-> <<>>,
     op |-> "", thing |-> NoThing, arg |-> NoSchema, result |-> UndefinedResult,
     threw |-> ""]

(***************************************************************************)
(* The state machine.                                                      *)
(***************************************************************************)
St == [ctxs |-> ctxs, cbs |-> cbs, pars |-> pars, maps |-> maps, heap |-> heap,
       async |-> async, log |-> log, exc |-> "", items |-> <<>>, rv |-> Undefined,
       stack |-> <<>>]

Commit(S) ==
    /\ ctxs' = S.ctxs
    /\ cbs' = S.cbs
    /\ pars' = S.pars
    /\ maps' = S.maps
    /\ heap' = S.heap
    /\ async' = S.async
    /\ log' = S.log
    /\ exc' = IF S.exc # "" THEN S.exc ELSE exc
    /\ UNCHANGED registry

NoCall == [op |-> "none", schema |-> "", json |-> Undefined, target |-> 0,
           initial |-> NewObject("")]

Init ==
    /\ ctxs = <<>>
    /\ cbs = <<>>
    /\ pars = <<>>
    /\ maps = <<>>
    /\ heap = <<>>
    /\ async = {}
    /\ log = <<>>
    /\ ret = Undefined
    /\ exc = ""
    /\ call = NoCall
    /\ registry = NoRegistry

\* deserialize(schema, json, callback)
Deserialize ==
    /\ call.op = "none"
    /\ \E in \in DeserializeInputs :
          LET S == deserialize(St, in[1], in[2], UserCb) IN
          /\ Commit(S)
          /\ ret' = S.rv
          /\ call' = [op |-> "deserialize", schema |-> in[1], json |-> in[2], target |-> 0,
                       initial |-> NewObject("")]

\* update(modelSchema, target, json, callback) on an object the caller made
Update ==
    /\ call.op = "none"
    /\ \E in \in UpdateInputs :
       \E obj \in Targets(in[1]) :
          LET S0 == [St EXCEPT !.heap = Append(@, obj)]
              S == update(S0, in[1], Len(S0.heap), in[2], UserCb)
          IN
          /\ Commit(S)
          /\ ret' = S.rv
          /\ call' = [op |-> "update", schema |-> in[1], json |-> in[2],
                       target |-> Len(S0.heap), initial |-> obj]

\* a user lookup function calls back with the object it found
LookupDone ==
    \E a \in async :
       /\ Commit(Run(Push([St EXCEPT !.async = @ \ {a}],
                           <<CallInvoke(a.done, NoErr, Looked(a.fn, a.arg.v))>>)))
       /\ UNCHANGED <<ret, call>>

\* a user lookup function calls back with an error
LookupFail ==
    \E a \in async :
       /\ Commit(Run(Push([St EXCEPT !.async = @ \ {a}],
                           <<CallInvoke(a.done, Err("lookup failed"), Undefined)>>)))
       /\ UNCHANGED <<ret, call>>

Next == Deserialize \/ Update \/ LookupDone \/ LookupFail

Spec == Init /\ [][Next]_vars

(***************************************************************************)
(* The programs that call deserialize with or without a completion         *)
(* callback.                                                               *)
(***************************************************************************)
\* deserialize(schema, json)
DeserializeOmitted ==
    /\ call.op = "none"
    /\ \E in \in DeserializeInputs :
          LET S == deserialize(St, in[1], in[2], NoCallback) IN
          /\ Commit(S)
          /\ ret' = S.rv
          /\ call' = [op |-> "deserializeOmitted", schema |-> in[1], json |-> in[2],
                      target |-> 0, initial |-> NewObject("")]

NextOmitted == Deserialize \/ DeserializeOmitted \/ LookupDone \/ LookupFail

SpecOmitted == Init /\ [][NextOmitted]_vars

(***************************************************************************)
(* The programs that only use the registry: calls of the exported          *)
(* functions on classes, instances and schemas.                            *)
(***************************************************************************)
MaxProps == 2

engineVars == <<ctxs, cbs, pars, maps, heap, async, log, ret, exc, call>>

Things == {TheClass(c) : c \in Classes} \cup {InstanceOfClass(c) : c \in Classes}

\* the schemas a program holds: the registered ones and a simple schema
KnownSchemas ==
    ({registry.info[c] : c \in Classes} \ {NoSchema}) \cup {createSimpleSchema(MaxSchemas + 1)}

\* api.createModelSchema(clazz, props)
CreateModelSchema ==
    /\ registry.made < MaxSchemas
    /\ \E c \in Classes :
          registry' = CallExported(registry, "createModelSchema", TheClass(c), NoSchema)
    /\ UNCHANGED engineVars

\* api.setDefaultModelSchema(clazz, schema)
SetDefaultModelSchema ==
    /\ \E c \in Classes, schema \in KnownSchemas :
          registry' = CallExported(registry, "setDefaultModelSchema", TheClass(c), schema)
    /\ UNCHANGED engineVars

\* api.getDefaultModelSchema(thing)
GetDefaultModelSchema ==
    /\ \E thing \in Things \cup {NoThing} \cup {TheSchema(sc) : sc \in KnownSchemas} :
          registry' = CallExported(registry, "getDefaultModelSchema", thing, NoSchema)
    /\ UNCHANGED engineVars

\* api.object(thing) / api.child(thing) / api.reference(thing) / api.ref(thing)
ConstructPropSchema ==
    /\ Len(registry.props) < MaxProps
    /\ \E name \in {"object", "child", "reference", "ref"},
          thing \in {TheClass(c) : c \in Classes} \cup {NoThing}
                       \cup {TheSchema(sc) : sc \in KnownSchemas} :
          registry' = CallExported(registry, name, thing, NoSchema)
    /\ UNCHANGED engineVars

NextRegistry ==
    CreateModelSchema \/ SetDefaultModelSchema \/ GetDefaultModelSchema
       \/ ConstructPropSchema

SpecRegistry == Init /\ [][NextRegistry]_vars

(***************************************************************************)
(* The programs that serialize: serialize followed by deserialize of the   *)
(* result, deserialize followed by serialize of the result, and the        *)
(* construction of aliases.                                                *)
(***************************************************************************)
\* objects of schema Rec and of schema Clash with all their properties
RecObjects ==
    {Obj(<<[key |-> "msg", val |-> m], [key |-> "y", val |-> y],
           [key |-> "born", val |-> b], [key |-> "died", val |-> d],
           [key |-> "code", val |-> c]>>) :
        m \in {Prim(1), Null, Undefined}, y \in {Prim(2), Null},
        b \in {Date(3), Null, Undefined}, d \in {Date(4), Null},
        c \in {Prim(5), Prim(6)}}

ClashObjects ==
    {Obj(<<[key |-> "x", val |-> x], [key |-> "y", val |-> y]>>) :
        x \in PrimIds, y \in PrimIds}

SerializeInputs ==
    {<<"Rec", o>> : o \in RecObjects} \cup {<<"Clash", o>> : o \in ClashObjects}

\* JSON objects whose keys are named in schema Prims
PrimsJsons ==
    {Obj(Opt("msg", m) \o Opt("y", y)) :
        m \in {Absent, Null} \cup PrimIds, y \in {Absent, Null} \cup PrimIds}

AliasNames == {"", "why", "id"}
AliasInners == {primitive, identifier, date, alias("z", primitive), alias("z", identifier)}

\* the own properties of the object heap[h]: those a callback assigned and
\* those that hold a value
OwnProps(h) ==
    {p \in PropNames :
        \/ heap[h].fields[p] # Undefined
        \/ \E c \in 1..Len(cbs) :
              cbs[c].fn.k = "assign" /\ cbs[c].fn.target = h /\ cbs[c].fn.prop = p
                 /\ cbs[c].ran}

AsObject(h) ==
    LET own == SelectSeq(PropOrder, LAMBDA p : p \in OwnProps(h))
    IN  Obj([i \in 1..Len(own) |-> [key |-> own[i], val |-> heap[h].fields[own[i]]]])

\* json = serialize(schema, x)
SerializeValue ==
    /\ call.op = "none"
    /\ \E in \in SerializeInputs :
          /\ ret' = serialize(in[1], in[2]).value
          /\ exc' = serialize(in[1], in[2]).threw
          /\ call' = [op |-> "serialize", schema |-> in[1], json |-> in[2], target |-> 0,
                      initial |-> NewObject("")]
    /\ UNCHANGED <<ctxs, cbs, pars, maps, heap, async, log, registry>>

\* deserialize(schema, json, callback) of the serialized value
DeserializeSerialized ==
    /\ call.op = "serialize" /\ exc = ""
    /\ LET S == deserialize(St, call.schema, ret, UserCb) IN
          /\ Commit(S)
          /\ call' = [call EXCEPT !.op = "roundtrip", !.target = S.rv.v]
    /\ UNCHANGED ret

\* deserialize(Prims, json, callback)
DeserializePrims ==
    /\ call.op = "none"
    /\ \E j \in PrimsJsons :
          LET S == deserialize(St, "Prims", j, UserCb) IN
          /\ Commit(S)
          /\ ret' = S.rv
          /\ call' = [op |-> "deserialize", schema |-> "Prims", json |-> j, target |-> 0,
                      initial |-> NewObject("")]

\* serialize(schema, object) of the deserialized object; the result is
\* kept in call.initial
SerializeDeserialized ==
    /\ call.op = "deserialize" /\ exc = "" /\ ret.k = "ref"
    /\ call' = [call EXCEPT !.op = "reserialized",
                            !.initial = serialize(call.schema, AsObject(ret.v))]
    /\ UNCHANGED <<ctxs, cbs, pars, maps, heap, async, log, ret, exc, registry>>

\* alias(name, propSchema); the argument and the result are kept in
\* call.initial
ConstructAlias ==
    /\ call.op = "none"
    /\ \E name \in AliasNames, inner \in AliasInners :
          call' = [op |-> "alias", schema |-> name, json |-> Undefined, target |-> 0,
                   initial |-> [inner |-> inner, made |-> alias(name, inner)]]
    /\ UNCHANGED <<ctxs, cbs, pars, maps, heap, async, log, ret, exc, registry>>

NextRoundTrip ==
    SerializeValue \/ DeserializeSerialized \/ DeserializePrims \/ SerializeDeserialized
       \/ ConstructAlias

SpecRoundTrip == Init /\ [][NextRoundTrip]_vars

(***************************************************************************)
(* The programs that use a Context directly: a root Context and a child of *)
(* it, and then any sequence of createCallback, invocations of the         *)
(* callbacks it returned (a second time as well), await and resolve.  The  *)
(* callback given to await is a function of the caller or a callback of a  *)
(* Context; call holds the last call made and exc the exception it threw.  *)
(***************************************************************************)
MaxCalls == 4
MaxCallbacks == 2

CallsMade == IF call.op = "none" THEN 0 ELSE call.seq

ContextCall(op, x, schema, uuid, cont, err) ==
    [op |-> op, ctx |-> x, schema |-> schema, uuid |-> uuid, cont |-> cont, err |-> err,
     seq |-> CallsMade + 1]

CommitCall(S) ==
    /\ ctxs' = S.ctxs
    /\ cbs' = S.cbs
    /\ pars' = S.pars
    /\ maps' = S.maps
    /\ heap' = S.heap
    /\ async' = S.async
    /\ log' = S.log
    /\ exc' = S.exc
    /\ UNCHANGED <<ret, registry>>

RefSchemas == {"Shape", "Circle"}

\* the instance a schema publishes: the target of the Context made for it
InstanceFor(schema) == IF schema = "Shape" THEN Ref(1) ELSE Ref(2)

AwaitFn == Cont("user", 1, 0)
AwaitCallbacks == {AwaitFn} \cup {Cont("ctxcb", c, 0) : c \in 1..Len(cbs)}

\* new Context(null, Shape, {}, callback) and new Context(root, Circle, {})
NewContexts ==
    /\ call.op = "none"
    /\ LET S0 == [St EXCEPT !.heap = <<NewObject("Shape"), NewObject("Circle")>>]
           S1 == Context(S0, 0, "Shape", Obj(<<>>), UserCb)
           S2 == Context([S1 EXCEPT !.ctxs[1].target = 1], 1, "Circle", Obj(<<>>), NoCallback)
       IN  CommitCall([S2 EXCEPT !.ctxs[2].target = 2])
    /\ call' = [ContextCall("new", 0, "", 0, NoCallback, NoErr) EXCEPT !.seq = 0]

\* context.createCallback(function (value) { target.msg = value })
CreateCallback ==
    /\ call.op # "none" /\ CallsMade < MaxCalls /\ Len(cbs) < MaxCallbacks
    /\ \E x \in 1..Len(ctxs) :
          /\ CommitCall(createCallback(St, x, AssignFn(ctxs[x].target, "msg")))
          /\ call' = ContextCall("createCallback", x, "", 0, NoCallback, NoErr)

\* callback(err, value) on a callback createCallback returned, fired or not
InvokeCallback ==
    /\ call.op # "none" /\ CallsMade < MaxCalls
    /\ \E c \in 1..Len(cbs) : \E err \in {NoErr, Err("failed")} :
          /\ CommitCall(Run(Push(St, <<CallInvoke(Cont("ctxcb", c, 0), err,
                                          IF err = NoErr THEN Prim(7) ELSE Undefined)>>)))
          /\ call' = ContextCall("invoke", cbs[c].ctx, "", 0, Cont("ctxcb", c, 0), err)

\* context.await(modelSchema, uuid, callback)
Await ==
    /\ call.op # "none" /\ CallsMade < MaxCalls
    /\ \E x \in 1..Len(ctxs) : \E schema \in RefSchemas : \E uuid \in Ids :
       \E callback \in AwaitCallbacks :
          /\ CommitCall(Run(await(St, x, schema, uuid, callback)))
          /\ call' = ContextCall("await", x, schema, uuid, callback, NoErr)

\* context.resolve(modelSchema, uuid, value)
Resolve ==
    /\ call.op # "none" /\ CallsMade < MaxCalls
    /\ \E x \in 1..Len(ctxs) : \E schema \in RefSchemas : \E uuid \in Ids :
          /\ CommitCall(Run(resolve(St, x, schema, uuid, InstanceFor(schema))))
          /\ call' = ContextCall("resolve", x, schema, uuid, NoCallback, NoErr)

NextContext == NewContexts \/ CreateCallback \/ InvokeCallback \/ Await \/ Resolve

SpecContext == Init /\ [][NextContext]_vars

(***************************************************************************)
(* Vocabulary of the properties.                                           *)
(***************************************************************************)
Called == call.op # "none"

\* the call returned normally and no user lookup is still to call back
Quiescent == Called /\ exc = "" /\ async = {}

Succeeded(entry) == entry.err.e = ""

\* the call made one root Context (json is one object, not an array)
SingleRoot == Called /\ call.json.k = "obj"

\* the objects of a Doc document, in the order they are walked
DocElems(json) ==
    LET Elems(key) == IF HasKey(json, key) /\ Get(json, key).k = "arr"
                      THEN Get(json, key).v ELSE <<>>
    IN  Elems("items") \o Elems("more")

Values(json, key) ==
    IF ~HasKey(json, key) THEN {}
    ELSE IF Get(json, key).k = "arr" THEN {Get(json, key).v[i] : i \in 1..Len(Get(json, key).v)}
    ELSE {Get(json, key)}

PublishedIds(elems) == UNION {Values(elems[i], "uuid") : i \in 1..Len(elems)}
ReferencedIds(elems) ==
    UNION {Values(elems[i], "author") \cup Values(elems[i], "coauthors") : i \in 1..Len(elems)}

\* objects that only publish identifiers and hold default-lookup references
OnlyRefs(elems) ==
    \A i \in 1..Len(elems) :
       /\ elems[i].k = "obj"
       /\ \A n \in 1..Len(elems[i].v) : elems[i].v[n].key \in {"uuid", "author", "coauthors"}

ValidRefs(elems) ==
    /\ OnlyRefs(elems)
    /\ ReferencedIds(elems) # {}
    /\ ReferencedIds(elems) \subseteq PublishedIds(elems)

\* the reference properties of the object of Context c hold instances that
\* published the identifiers named in its json
RefsHold(c) ==
    LET j == ctxs[c].json
        t == heap[ctxs[c].target].fields
        IsInstance(value, id) == value.k = "ref" /\ heap[value.v].fields["uuid"] = id
    IN  /\ HasKey(j, "author") => IsInstance(t["author"], Get(j, "author"))
        /\ HasKey(j, "coauthors") =>
              /\ t["coauthors"].k = "arr"
              /\ Len(t["coauthors"].v) = Len(Get(j, "coauthors").v)
              /\ \A i \in 1..Len(Get(j, "coauthors").v) :
                    IsInstance(t["coauthors"].v[i], Get(j, "coauthors").v[i])

(***************************************************************************)
(* C1  Completion exclusivity: the completion callback of a deserialize or *)
(* update call is never invoked twice, and once the call has returned and  *)
(* every issued callback has fired it has been invoked exactly once.       *)
(***************************************************************************)
C1_CompletionExclusivity ==
    /\ Len(log) <= 1
    /\ Quiescent => Len(log) = 1

(***************************************************************************)
(* C2  Order independence of refs: a Doc document in which every           *)
(* referenced identifier is published by some object completes with        *)
(* success (one invocation, no error) and every reference property holds   *)
(* the instance that published the identifier, whether the publishing      *)
(* object is walked before or after the referencing property.             *)
(***************************************************************************)
C2_OrderIndependenceOfRefs ==
    (call.op = "deserialize" /\ call.schema = "Doc" /\ ValidRefs(DocElems(call.json)))
    => /\ Len(log) = 1
       /\ Succeeded(log[1])
       /\ \A c \in 1..Len(ctxs) : ctxs[c].modelSchema = "Node" => RefsHold(c)

(***************************************************************************)
(* C3  Unresolvable reference: when the call has returned, every callback  *)
(* other than the awaiting ones has fired and identifiers are still        *)
(* awaited on the root Context, the completion has been invoked with the   *)
(* error that names exactly the identifiers with pending awaiters.         *)
(***************************************************************************)
C3_UnresolvableReference ==
    (SingleRoot /\ Quiescent /\ ~ctxs[1].hasError /\ PendingKeys(ctxs[1]) # {})
    => \E i \in 1..Len(log) : log[i].err = Unresolvable(PendingKeys(ctxs[1]))

(***************************************************************************)
(* C4  Whenever the completion is invoked with success, every callback     *)
(* issued by any Context of the call has fired, no user lookup is          *)
(* outstanding and every Context has pendingCallbacks = pendingRefsCount   *)
(* = 0.                                                                    *)
(***************************************************************************)
C4_SuccessAfterEverything ==
    \A i \in 1..Len(log) :
       Succeeded(log[i]) =>
          /\ log[i].unfired = 0
          /\ log[i].outstanding = 0
          /\ \A c \in 1..Len(log[i].counts) : log[i].counts[c] = <<0, 0>>

\* a success was delivered for a document with nested objects and lookups
\* that completed after deserialize had returned
C4_Witness ==
    /\ call.op = "deserialize"
    /\ Len(log) = 1 /\ Succeeded(log[1])
    /\ Len(ctxs) >= 2
    /\ \E c \in 1..Len(cbs) : cbs[c].fn.prop = "editor" /\ cbs[c].ran

(***************************************************************************)
(* C5  Error latching: a callback of a Context that is invoked after the   *)
(* Context latched an error neither runs its assignment function nor       *)
(* invokes the completion; a latched Context has invoked its completion.   *)
(***************************************************************************)
C5_ErrorLatching ==
    /\ \A c \in 1..Len(cbs) :
          (cbs[c].fired /\ cbs[c].latched) => (~cbs[c].ran /\ ~cbs[c].called)
    /\ \A x \in 1..Len(ctxs) : ctxs[x].hasError => ctxs[x].ready >= 1

\* callbacks were invoked with a value and with an error after the latch
C5_Witness ==
    /\ \E c \in 1..Len(cbs) : cbs[c].fired /\ cbs[c].latched /\ cbs[c].fn.k = "assign"
    /\ \E c, d \in 1..Len(cbs) :
          /\ c # d /\ cbs[c].ctx = cbs[d].ctx
          /\ cbs[c].fired /\ cbs[c].called /\ cbs[d].fired /\ cbs[d].latched
          /\ cbs[d].stamp > cbs[c].stamp

(***************************************************************************)
(* C6  Reference resolution within a top-level JSON array: when the        *)
(* elements of the array given to deserialize publish every identifier     *)
(* that an element refers to, the completion is invoked once, with         *)
(* success, and every reference property holds the instance of the element *)
(* that published the identifier.                                          *)
(***************************************************************************)
C6_ArraySharesRefTable ==
    (call.op = "deserialize" /\ call.schema = "Node" /\ call.json.k = "arr"
       /\ ValidRefs(call.json.v))
    => /\ Len(log) = 1
       /\ Succeeded(log[1])
       /\ \A c \in 1..Len(ctxs) : RefsHold(c)

(***************************************************************************)
(* Vocabulary for the aggregation of parallel.                             *)
(***************************************************************************)
\* r is the result of deserializing element i of the input of parallel p
ElementResult(p, i, r) ==
    LET in == pars[p].ar[i] IN
    CASE pars[p].inner = "lookup" ->
            r = IF isNullish(in) THEN in ELSE Looked(pars[p].fn, in.v)
      [] pars[p].inner = "reference" ->
            IF isNullish(in) THEN r = in
            ELSE /\ r.k = "ref"
                 /\ \E x \in 1..Len(ctxs) :
                       /\ ctxs[x].target = r.v
                       /\ HasKey(ctxs[x].json, "uuid")
                       /\ Get(ctxs[x].json, "uuid") = in
      [] OTHER ->
            IF isNullish(in) THEN r = Null
            ELSE /\ r.k = "ref"
                 /\ \E x \in 1..Len(ctxs) : ctxs[x].target = r.v /\ ctxs[x].json = in

\* the value the aggregate callback of parallel p delivers on success
Aggregated(p) ==
    IF pars[p].cb.k = "map"
    THEN Obj([i \in 1..Len(pars[p].ar) |->
                 [key |-> maps[pars[p].cb.id].keys[i], val |-> pars[p].resultArray[i]]])
    ELSE Arr(pars[p].resultArray)

\* the property callback that receives the aggregate of parallel p
Receiver(p) ==
    IF pars[p].cb.k = "map" THEN maps[pars[p].cb.id].done ELSE pars[p].cb

ListProps == {"coauthors", "links", "items", "more"}

\* the JSON value that the property callback c deserializes
JsonOf(c) ==
    LET x == CHOOSE x \in 1..Len(ctxs) : ctxs[x].target = cbs[c].fn.target
        def == CHOOSE d \in {ModelSchema(sc).props[i] :
                                sc \in {ctxs[x].modelSchema}, i \in 1..Len(ModelSchema(ctxs[x].modelSchema).props)} :
                   d.name = cbs[c].fn.prop
        jsonAttr == IF def.def.jsonname # "" THEN def.def.jsonname ELSE def.name
    IN  Get(ctxs[x].json, jsonAttr)

(***************************************************************************)
(* C7  list and map aggregation: the aggregate callback of parallel fires  *)
(* at most once, with success only after every element callback has        *)
(* completed and otherwise after an element callback reported an error;    *)
(* the result array holds each element's result at the position of its     *)
(* input whatever the order of completion, and the property receives that  *)
(* array (or the object built from it); an empty array or object completes *)
(* during the call with an empty result.                                   *)
(***************************************************************************)
C7_ParallelAggregation ==
    /\ \A p \in 1..Len(pars) :
          LET n == Len(pars[p].ar) IN
          /\ Len(pars[p].agg) <= 1
          /\ \A i \in 1..Len(pars[p].resultArray) :
                \/ pars[p].resultArray[i] = Undefined
                \/ ElementResult(p, i, pars[p].resultArray[i])
          /\ \A a \in 1..Len(pars[p].agg) :
                IF Succeeded(pars[p].agg[a])
                THEN /\ Len(pars[p].agg[a].seen) = n
                     /\ {pars[p].agg[a].seen[j] : j \in 1..n} = 1..n
                     /\ Len(pars[p].resultArray) = n
                     /\ \A i \in 1..n : ElementResult(p, i, pars[p].resultArray[i])
                     /\ Receiver(p).k = "ctxcb" /\ cbs[Receiver(p).id].ran
                           => heap[cbs[Receiver(p).id].fn.target]
                                 .fields[cbs[Receiver(p).id].fn.prop] = Aggregated(p)
                     /\ Receiver(p).k = "user"
                           => \E i \in 1..Len(log) : log[i].value = Aggregated(p)
                ELSE /\ pars[p].failed
                     /\ Len(pars[p].agg[a].seen) >= 1
       \* an aggregate fires as soon as the last element has completed
          /\ (~pars[p].failed /\ pars[p].left = 0) => Len(pars[p].agg) = 1
    /\ \A c \in 1..Len(cbs) :
          (cbs[c].fn.k = "assign" /\ cbs[c].fn.prop \in ListProps \cup {"tags"}
             /\ JsonOf(c) \in {Arr(<<>>), Obj(<<>>)})
          => /\ cbs[c].fired
             /\ cbs[c].ran =>
                   heap[cbs[c].fn.target].fields[cbs[c].fn.prop] =
                      IF cbs[c].fn.prop = "tags" THEN Obj(<<>>) ELSE Arr(<<>>)

\* two lookups of a list completed in the reverse of input order, and an
\* empty list was assigned
C7_Witness ==
    /\ \E p \in 1..Len(pars) :
          /\ pars[p].inner = "lookup"
          /\ Len(pars[p].ar) = 2
          /\ pars[p].ar[1] # pars[p].ar[2]
          /\ Len(pars[p].agg) = 1 /\ Succeeded(pars[p].agg[1])
          /\ pars[p].agg[1].seen = <<2, 1>>
          /\ Receiver(p).k = "ctxcb"
          /\ cbs[Receiver(p).id].ran
    /\ Len(log) = 1 /\ Succeeded(log[1])

(***************************************************************************)
(* Vocabulary for deserialize on a JSON array.                             *)
(***************************************************************************)
ArrayCall == call.op = "deserialize" /\ call.json.k = "arr" /\ exc = ""

\* v is an instance that the factory of the call's schema made for element i
InstanceOf(v, i) ==
    /\ v.k = "ref"
    /\ heap[v.v].schema = call.schema
    /\ \E x \in 1..Len(ctxs) : ctxs[x].target = v.v /\ ctxs[x].json = call.json.v[i]

\* the arrays handed to the completion hold the instances of the returned one
CompletionHolds ==
    \A e \in 1..Len(log) :
       Succeeded(log[e]) =>
          /\ log[e].value.k = "arr"
          /\ Len(log[e].value.v) = Len(call.json.v)
          /\ \A i \in 1..Len(call.json.v) :
                log[e].value.v[i] =
                   IF call.json.v[i] = Null THEN Null ELSE ret.v[i]

ChildCall == Called /\ call.schema = "Child" /\ exc = ""

ChildTarget == ctxs[Len(ctxs)].target

\* the callbacks issued for property prop, in the order they were issued:
\* the parent schema's first
IssuedFor(prop) ==
    LET cs == {c \in 1..Len(cbs) : cbs[c].fn.k = "assign" /\ cbs[c].fn.prop = prop}
    IN  [parent |-> CHOOSE c \in cs : \A d \in cs : c <= d,
         child |-> CHOOSE c \in cs : \A d \in cs : c >= d]

Completed == Len(log) = 1 /\ Succeeded(log[1])

(***************************************************************************)
(* C9  (as stated)  Extends order: after deserialization has completed, a  *)
(* property that parent and child schema both define holds the value       *)
(* produced by the child's prop schema, in whatever order the two          *)
(* property callbacks fired.                                               *)
(***************************************************************************)
C9_ChildValueWins ==
    (ChildCall /\ Completed) =>
       /\ HasKey(call.json, "x") =>
             heap[ChildTarget].fields["x"] = Looked("lookupB", Get(call.json, "x").v)
       /\ (HasKey(call.json, "y") /\ HasKey(call.json, "why")) =>
             heap[ChildTarget].fields["y"] = Get(call.json, "why")

(***************************************************************************)
(* C9  (amended)  Extends order: the parent's callback for a shared        *)
(* property is issued before the child's; after deserialization has        *)
(* completed the property holds the value of whichever of the two          *)
(* callbacks fired last.  That is the child's value when both prop schemas *)
(* complete synchronously, and the parent's when the parent's deserializer *)
(* completes after the child's.                                            *)
(***************************************************************************)
C9_LastFiredWins ==
    (ChildCall /\ Completed) =>
       /\ HasKey(call.json, "x") =>
             LET cb == IssuedFor("x") IN
             /\ cb.parent < cb.child
             /\ cbs[cb.parent].ran /\ cbs[cb.child].ran
             /\ heap[ChildTarget].fields["x"] =
                   IF cbs[cb.child].stamp > cbs[cb.parent].stamp
                   THEN Looked("lookupB", Get(call.json, "x").v)
                   ELSE Looked("lookupA", Get(call.json, "x").v)
       /\ (HasKey(call.json, "y") /\ HasKey(call.json, "why")) =>
             LET cb == IssuedFor("y") IN
             /\ cbs[cb.child].stamp > cbs[cb.parent].stamp
             /\ heap[ChildTarget].fields["y"] = Get(call.json, "why")

\* the parent's lookup completed after the child's, and both schemas
\* assigned y synchronously
C9_Witness ==
    /\ ChildCall /\ Completed
    /\ HasKey(call.json, "x") /\ HasKey(call.json, "y") /\ HasKey(call.json, "why")
    /\ cbs[IssuedFor("x").parent].stamp > cbs[IssuedFor("x").child].stamp
    /\ heap[ChildTarget].fields["x"] = Looked("lookupA", Get(call.json, "x").v)
    /\ heap[ChildTarget].fields["y"] = Get(call.json, "why")

(***************************************************************************)
(* Vocabulary for update.                                                  *)
(***************************************************************************)
\* the schemas of an extends chain, outermost parent first
RECURSIVE Chain(_)
Chain(schema) ==
    IF ModelSchema(schema).extends = "" THEN <<schema>>
    ELSE Append(Chain(ModelSchema(schema).extends), schema)

\* the JSON keys under which the walk of schema reads property p: its
\* jsonname or name in every schema of the chain that defines it, and its
\* own name when only a "*" could bring it in
JsonKeys(schema, p) ==
    LET defs == {d \in UNION {{ModelSchema(Chain(schema)[n]).props[i] :
                                  i \in 1..Len(ModelSchema(Chain(schema)[n]).props)} :
                              n \in 1..Len(Chain(schema))} : d.name = p}
    IN  IF defs = {} THEN {p}
        ELSE {IF d.def.jsonname # "" THEN d.def.jsonname ELSE d.name : d \in defs}

AbsentFromJson(p) == \A key \in JsonKeys(call.schema, p) : ~HasKey(call.json, key)

\* the state before any call
Fresh ==
    [ctxs |-> <<>>, cbs |-> <<>>, pars |-> <<>>, maps |-> <<>>, heap |-> <<>>,
     async |-> {}, log |-> <<>>, exc |-> "", items |-> <<>>, rv |-> Undefined,
     stack |-> <<>>]

\* what a call that has returned tells about completion: the errors the
\* completion received, the exception thrown, the bookkeeping of the root
\* Context and the user lookups still to call back
CompletionOf(S) ==
    [errs |-> [i \in 1..Len(S.log) |-> S.log[i].err],
     exc |-> S.exc,
     root |-> <<S.ctxs[1].pendingCallbacks, S.ctxs[1].pendingRefsCount, S.ctxs[1].hasError>>,
     lookups |-> {<<a.fn, a.arg>> : a \in S.async}]

(***************************************************************************)
(* C10  update reuses the given target: no instance is created and every   *)
(* assignment goes to the target; a property whose JSON key (jsonname or   *)
(* property name) is absent from json keeps the value it had; only         *)
(* properties present in json get a callback, and on success each of them  *)
(* has been assigned; the completion behaves as that of deserialize on the *)
(* same schema and json.                                                   *)
(***************************************************************************)
C10_UpdateFrame ==
    call.op = "update" =>
       /\ Len(ctxs) = 1 /\ ctxs[1].target = call.target
       /\ Len(heap) = call.target
       /\ \A p \in PropNames :
             AbsentFromJson(p) => heap[call.target].fields[p] = call.initial.fields[p]
       /\ \A c \in 1..Len(cbs) :
             cbs[c].fn.k = "assign" =>
                /\ cbs[c].fn.target = call.target
                /\ ~AbsentFromJson(cbs[c].fn.prop)
       /\ \A e \in 1..Len(log) :
             Succeeded(log[e]) =>
                /\ log[e].value = Ref(call.target)
                /\ \A c \in 1..Len(cbs) : cbs[c].ran
                /\ \A key \in JsonKeys(call.schema, "msg") :
                      HasKey(call.json, key) =>
                         heap[call.target].fields["msg"] = Get(call.json, key)
       /\ CompletionOf(update([Fresh EXCEPT !.heap = <<call.initial>>], call.schema, 1,
                              call.json, UserCb))
          = CompletionOf(deserialize(Fresh, call.schema, call.json, UserCb))

\* an update of a filled target completed after a user lookup: the
\* properties of the json were assigned, the others kept their values
C10_Witness ==
    /\ call.op = "update" /\ call.schema = "Node"
    /\ call.initial.fields["uuid"] = OldValue
    /\ HasKey(call.json, "msg") /\ HasKey(call.json, "editor") /\ ~HasKey(call.json, "uuid")
    /\ Len(log) = 1 /\ Succeeded(log[1])
    /\ heap[call.target].fields["msg"] = Get(call.json, "msg")
    /\ heap[call.target].fields["editor"] = Looked("lookupA", Get(call.json, "editor").v)
    /\ heap[call.target].fields["uuid"] = OldValue

(***************************************************************************)
(* C11  After the exported setDefaultModelSchema(clazz, schema) has been   *)
(* called with a model schema, getDefaultModelSchema(clazz) and            *)
(* getDefaultModelSchema(instance of clazz) return that schema.            *)
(***************************************************************************)
C11_SetThenGet ==
    (registry.op = "setDefaultModelSchema" /\ registry.threw = "") =>
       /\ getDefaultModelSchema(registry.info, registry.thing) = Found(registry.arg)
       /\ getDefaultModelSchema(registry.info, InstanceOfClass(registry.thing.v))
             = Found(registry.arg)

(***************************************************************************)
(* C12  Late binding: constructing object(S) or reference(S) never fails,  *)
(* also when S is undefined or a class without a default schema, and the   *)
(* schema that a prop schema constructed for a class uses is the one the   *)
(* registry holds for that class when the prop schema is used.             *)
(***************************************************************************)
C12_LateBinding ==
    /\ Exported(IF registry.op = "" THEN "getDefaultModelSchema" ELSE registry.op)
          \in {"object", "reference"} => registry.threw = ""
    /\ \A i \in 1..Len(registry.props) :
          registry.props[i].thing.k = "class" =>
             registry.props[i].modelSchema
                = serializeInfo(registry.info, registry.props[i].thing.v)

(***************************************************************************)
(* Vocabulary for serialize / deserialize round trips.                     *)
(***************************************************************************)
\* the properties of an object given by its pairs
PairSet(obj) == {<<obj.v[i].key, obj.v[i].val>> : i \in 1..Len(obj.v)}

\* the JSON key of prop i of a schema
JsonAttr(schema, i) ==
    IF ModelSchema(schema).props[i].def.jsonname # ""
    THEN ModelSchema(schema).props[i].def.jsonname
    ELSE ModelSchema(schema).props[i].name

\* no two props of the schema are stored under the same JSON key
DistinctJsonKeys(schema) ==
    \A i, j \in 1..Len(ModelSchema(schema).props) :
       i # j => JsonAttr(schema, i) # JsonAttr(schema, j)

\* serialize returned and deserialize of its result completed with an
\* object whose properties are those of the serialized object
RoundTripped ==
    /\ exc = ""
    /\ call.op = "roundtrip" =>
          /\ Completed
          /\ log[1].value = Ref(call.target)
          /\ PairSet(AsObject(call.target)) = PairSet(call.json)

C14_IdempotentSerialize ==
    call.op = "reserialized" =>
       /\ call.initial.threw = ""
       /\ PairSet(call.initial.value) = PairSet(call.json)

(***************************************************************************)
(* C15  Alias: for a property p declared as alias(n, inner), serialize     *)
(* stores the value under JSON key n and not under p; deserialize reads    *)
(* JSON key n and assigns the in-memory property p, not n; alias(n, inner) *)
(* keeps the serializer, deserializer and identifier flag of inner and     *)
(* fails at construction when inner is already aliased.                    *)
(***************************************************************************)
C15_Alias ==
    /\ call.op = "alias" =>
          IF isAliasedPropSchema(call.initial.inner) \/ call.schema = ""
          THEN call.initial.made.k = "thrown"
          ELSE /\ call.initial.made.jsonname = call.schema
               /\ call.initial.made.k = call.initial.inner.k
               /\ call.initial.made.arg = call.initial.inner.arg
               /\ call.initial.made.identifier = call.initial.inner.identifier
    /\ (call.op \in {"serialize", "roundtrip"} /\ call.schema = "Rec") =>
          /\ exc = ""
          /\ HasKey(ret, "why") /\ ~HasKey(ret, "y")
          /\ Get(ret, "why") = Get(call.json, "y")
          /\ HasKey(ret, "until") /\ ~HasKey(ret, "died")
          /\ Get(ret, "until") = serializer(date, Get(call.json, "died")).value
    /\ (call.op = "roundtrip" /\ call.schema = "Rec") =>
          /\ OwnProps(call.target) = {"msg", "y", "born", "died", "code"}
          /\ heap[call.target].fields["y"] = Get(call.json, "y")
          /\ heap[call.target].fields["died"] = Get(call.json, "died")

\* an aliased primitive and an aliased date were serialized under their
\* JSON names and came back under their property names
C15_Witness ==
    /\ call.op = "roundtrip" /\ call.schema = "Rec"
    /\ Get(call.json, "y") = Prim(2) /\ Get(call.json, "died") = Date(4)
    /\ Get(ret, "why") = Prim(2) /\ Get(ret, "until") = Prim(4)
    /\ heap[call.target].fields["y"] = Prim(2)
    /\ heap[call.target].fields["died"] = Date(4)
    /\ heap[call.target].fields["why"] = Undefined

(***************************************************************************)
(* C16  A deserialization whose json is null reports (null, null) through  *)
(* the completion and returns without creating a Context or a target.      *)
(* When the completion callback is omitted nothing is reported, and        *)
(* neither a null json nor any other deserialization that completes with   *)
(* success raises an error.                                                *)
(***************************************************************************)
C16_NullJsonAndOmittedCallback ==
    /\ (call.op = "deserialize" /\ isNullish(call.json)) =>
          /\ Len(log) = 1 /\ log[1].err = NoErr /\ log[1].value = Null
          /\ ctxs = <<>> /\ heap = <<>>
          /\ ret = Undefined /\ exc = ""
    /\ call.op = "deserializeOmitted" =>
          /\ log = <<>>
          /\ isNullish(call.json) => (exc = "" /\ ctxs = <<>> /\ heap = <<>>)
          /\ LET S == deserialize(Fresh, call.schema, call.json, UserCb) IN
             (S.exc = "" /\ S.async = {} /\ Len(S.log) = 1 /\ Succeeded(S.log[1]))
                => exc = ""

(***************************************************************************)
(* Vocabulary for JSON shape mismatches.                                   *)
(***************************************************************************)
\* the props named prop in the schemas of the chain of schema
PropDefs(schema, prop) ==
    {d \in UNION {{ModelSchema(Chain(schema)[n]).props[i] :
                      i \in 1..Len(ModelSchema(Chain(schema)[n]).props)} :
                  n \in 1..Len(Chain(schema))} : d.name = prop}

\* the Context whose target the property callback c assigns
OwnerOf(c) == CHOOSE x \in 1..Len(ctxs) : ctxs[x].target = cbs[c].fn.target

\* the property callback c was issued for a prop that is defined once and
\* whose JSON value has the wrong shape for its prop schema
Mismatches(c) ==
    /\ cbs[c].fn.k = "assign"
    /\ Cardinality(PropDefs(ctxs[OwnerOf(c)].modelSchema, cbs[c].fn.prop)) = 1
    /\ LET d == CHOOSE d \in PropDefs(ctxs[OwnerOf(c)].modelSchema, cbs[c].fn.prop) : TRUE
           value == Get(ctxs[OwnerOf(c)].json,
                        IF d.def.jsonname # "" THEN d.def.jsonname ELSE d.name)
       IN  \/ d.def.k \in {"primitive", "true", "identifier"} /\ ~isPrimitive(value)
           \/ d.def.k = "list" /\ value.k # "arr"
           \/ d.def.k = "map" /\ value.k \notin {"obj", "arr"}

ShapeErrors ==
    {"[serializr] this value is not primitive", "[serializr] expected JSON array",
     "[serializr] expected JSON object"}

C18_PendingLookupBlocksCompletion ==
    (Called /\ exc = "" /\ async # {} /\ \A x \in 1..Len(ctxs) : ~ctxs[x].hasError)
    => log = <<>>

(***************************************************************************)
(* C19  For every Context created at any nesting depth, rootContext is the *)
(* Context of the deserialization that has no parent; property callbacks   *)
(* are issued by a root Context; identifier and reference props at any     *)
(* depth call resolve and await without failing the root-only invariant.   *)
(***************************************************************************)
C19_RootContext ==
    /\ \A x \in 1..Len(ctxs) :
          /\ ctxs[ctxs[x].rootContext].isRoot
          /\ ctxs[x].isRoot <=> ctxs[x].parentContext = 0
          /\ SingleRoot => ctxs[x].rootContext = 1
    /\ \A c \in 1..Len(cbs) : cbs[c].fn.k = "assign" => ctxs[cbs[c].ctx].isRoot
    /\ exc # "[serializr] Illegal State"

(***************************************************************************)
(* Vocabulary for assignability.                                           *)
(***************************************************************************)
SceneCall == Called /\ call.schema = "Scene" /\ exc = ""

\* the reference props of Scene and the schema each awaits
SceneRefs == {"wantsShape", "wantsCircle", "lateShape", "lateCircle"}
Awaited(r) == IF r \in {"wantsShape", "lateShape"} THEN "Shape" ELSE "Circle"

\* B is reached from A by following extends zero or more times
Reaches(A, B) == \E n \in 1..Len(Chain(A)) : Chain(A)[n] = B

\* the instances published under id, with the schema that published them
Publications(id) ==
    {h \in 1..Len(heap) :
        /\ heap[h].schema \in {"Shape", "Circle", "Node"}
        /\ heap[h].fields["uuid"] = id}

(***************************************************************************)
(* C20  A reference that awaits schema B with identifier id is resolved    *)
(* with an instance published under id by schema A if and only if B is     *)
(* reached from A by following extends zero or more times: it is assigned  *)
(* such an instance when one is published, before or after the reference   *)
(* is walked, and stays unassigned when the only instances published under *)
(* id are of an ancestor of B or of an unrelated schema.                   *)
(***************************************************************************)
C20_Assignability ==
    SceneCall =>
        \A r \in SceneRefs :
            HasKey(call.json, r) =>
                LET id == Get(call.json, r)
                    value == heap[ctxs[1].target].fields[r]
                    fit == {h \in Publications(id) : Reaches(heap[h].schema, Awaited(r))}
                IN  IF fit = {} THEN value = Undefined
                    ELSE value.k = "ref" /\ value.v \in fit

\* a reference to Circle is resolved with the Circle published under its
\* identifier although a Shape and a Node were published under it as well
C20_Witness ==
    /\ SceneCall
    /\ HasKey(call.json, "wantsCircle")
    /\ heap[ctxs[1].target].fields["wantsCircle"].k = "ref"
    /\ heap[heap[ctxs[1].target].fields["wantsCircle"].v].schema = "Circle"
    /\ \E h \in Publications(Get(call.json, "wantsCircle")) : heap[h].schema = "Shape"
    /\ \E h \in Publications(Get(call.json, "wantsCircle")) : heap[h].schema = "Node"
    /\ HasKey(call.json, "lateShape")
    /\ heap[ctxs[1].target].fields["lateShape"].k = "ref"

(***************************************************************************)
(* Vocabulary for the lock and the completion criterion.                   *)
(***************************************************************************)
\* the lock callback of Context x: the callback it issued for GUARDED_NOOP
LockOf(x) == CHOOSE c \in 1..Len(cbs) : cbs[c].ctx = x /\ cbs[c].fn.k = "noop"

\* the decrement made by callback c met the completion criterion of its
\* Context: it ran its function and then invoked onReadyCb
MetCriterion(c) == cbs[c].ran /\ cbs[c].called

(***************************************************************************)
(* C21  Lock: no decrement of pendingCallbacks made while the lock of a    *)
(* Context is held meets its completion criterion; the first callback to   *)
(* meet it is the lock itself or one that fires after the lock.            *)
(***************************************************************************)
C21_LockHoldsCompletion ==
    \A c \in 1..Len(cbs) :
       MetCriterion(c) =>
          /\ cbs[LockOf(cbs[c].ctx)].fired
          /\ cbs[LockOf(cbs[c].ctx)].stamp <= cbs[c].stamp

\* the invocations of the completion with the unresolvable-references error
Unresolved == {i \in 1..Len(log) : log[i].err.e = "Unresolvable references in json"}

\* when invocation i was made, every callback outstanding on the root
\* Context was the continuation of a pending await
OnlyAwaitsOutstanding(i) ==
    \A c \in log[i].pending : cbs[c].ctx = 1 => c \in log[i].awaiting

\* no identifier named by invocation i was published after it
NeverPublished(i) ==
    \A u \in log[i].err.keys : Len(ctxs[1].resolvedRefs[u]) = log[i].resolved[1][u]

(***************************************************************************)
(* C22  Soundness of the completion criterion, for a document that is one  *)
(* object: when the unresolvable-references error is delivered, every      *)
(* callback outstanding on the root Context is the continuation of a       *)
(* pending reference await, and no identifier the error names is published *)
(* by a later step of the deserialization.                                 *)
(***************************************************************************)
C22_SoundUnresolvable ==
    SingleRoot => \A i \in Unresolved : OnlyAwaitsOutstanding(i) /\ NeverPublished(i)

(***************************************************************************)
(* C23  Context state machine, for a document that is one object: once the *)
(* unresolvable-references error has been delivered the root Context has   *)
(* hasError set, the completion is not invoked again and no callback that  *)
(* was outstanding at that moment runs its assignment afterwards.          *)
(***************************************************************************)
C23_StuckSettlesError ==
    SingleRoot =>
       \A i \in Unresolved :
          /\ ctxs[1].hasError
          /\ i = Len(log)
          /\ \A c \in log[i].pending : (cbs[c].ctx = 1 /\ cbs[c].fired) => ~cbs[c].ran

(***************************************************************************)
(* C24  Single-shot callbacks: a callback returned by createCallback that  *)
(* has been invoked is never run again, however it is reached; invoking it *)
(* a second time, with or without an error and whether or not its Context  *)
(* has errored, throws "callback was invoked twice" and changes neither    *)
(* the counters and hasError of any Context nor the target nor the         *)
(* completion's record.                                                    *)
(***************************************************************************)
C24_SingleShot ==
    [][/\ \A c \in 1..Len(cbs) : cbs[c].fired => cbs'[c] = cbs[c]
       /\ (call'.op = "invoke" /\ cbs[call'.cont.id].fired) =>
             /\ exc' = "[serializr] callback was invoked twice"
             /\ ctxs' = ctxs /\ heap' = heap /\ log' = log /\ cbs' = cbs]_vars

\* a callback of a Context that has errored has been invoked a second time
C24_Witness ==
    /\ call.op = "invoke"
    /\ exc = "[serializr] callback was invoked twice"
    /\ ctxs[call.ctx].hasError
    /\ call.err = NoErr

(***************************************************************************)
(* Vocabulary for await and resolve called on a Context.                   *)
(***************************************************************************)
\* the entries of resolvedRefs[uuid] of Context x, before the call, whose
\* schema reaches the schema B by extends
Fitting(x, uuid, B) ==
    {i \in 1..Len(ctxs[x].resolvedRefs[uuid]) :
        Reaches(ctxs[x].resolvedRefs[uuid][i].modelSchema, B)}

FirstOf(set) == CHOOSE i \in set : \A j \in set : i <= j

\* the step invoked the function cont with (null, value) and nothing else:
\* a function of the caller records it; a callback of a Context fires, and
\* assigns value when it runs, or throws when it had fired before
InvokedWith(cont, value) ==
    IF cont.k = "user"
    THEN /\ Len(log') = Len(log) + 1
         /\ log'[Len(log')].by = cont.id
         /\ log'[Len(log')].err = NoErr
         /\ log'[Len(log')].value = value
         /\ cbs' = cbs
    ELSE IF cbs[cont.id].fired
    THEN exc' = "[serializr] callback was invoked twice" /\ cbs' = cbs
    ELSE /\ cbs'[cont.id].fired
         /\ cbs'[cont.id].ran =>
               heap'[cbs[cont.id].fn.target].fields[cbs[cont.id].fn.prop] = value

(***************************************************************************)
(* C25  await(awaiterSchema, id, cb): on a Context that is not root it     *)
(* throws the invariant error and changes nothing; on the root Context,    *)
(* when resolvedRefs[id] holds an entry whose schema is assignable to      *)
(* awaiterSchema, cb is invoked at once with (null, value of the first     *)
(* such entry) and pendingRefs and pendingRefsCount are unchanged;         *)
(* otherwise one entry is appended to pendingRefs[id], pendingRefsCount    *)
(* grows by one and cb is not invoked.                                     *)
(***************************************************************************)
C25_Await ==
    [][call'.op = "await" =>
         LET x == call'.ctx
             B == call'.schema
             u == call'.uuid
         IN  IF ~ctxs[x].isRoot
             THEN /\ exc' = "[serializr] Illegal State"
                  /\ ctxs' = ctxs /\ cbs' = cbs /\ log' = log /\ heap' = heap
             ELSE IF Fitting(x, u, B) # {}
             THEN /\ InvokedWith(call'.cont,
                                 ctxs[x].resolvedRefs[u][FirstOf(Fitting(x, u, B))].value)
                  /\ ctxs'[x].pendingRefs = ctxs[x].pendingRefs
                  /\ ctxs'[x].pendingRefsCount = ctxs[x].pendingRefsCount
                  /\ ctxs'[x].resolvedRefs = ctxs[x].resolvedRefs
             ELSE /\ ctxs' = [ctxs EXCEPT
                                ![x].pendingRefsCount = @ + 1,
                                ![x].enqueued = @ + 1,
                                ![x].pendingRefs[u] =
                                    Append(@, [modelSchema |-> B, uuid |-> u,
                                               callback |-> call'.cont])]
                  /\ exc' = "" /\ cbs' = cbs /\ log' = log /\ heap' = heap]_vars

\* await found two assignable entries with different values and invoked the
\* caller's function with the value of the first
C25_Witness ==
    /\ call.op = "await" /\ call.ctx = 1 /\ call.cont = AwaitFn /\ exc = ""
    /\ Cardinality(Fitting(1, call.uuid, call.schema)) = 2
    /\ ctxs[1].resolvedRefs[call.uuid][1].value # ctxs[1].resolvedRefs[call.uuid][2].value
    /\ Len(log) = 1
    /\ log[1].by = 1
    /\ log[1].value = ctxs[1].resolvedRefs[call.uuid][1].value

\* the entries pending under uuid on Context x, before the call, that a
\* publication by schema A resolves
Resolved(x, uuid, A) ==
    {i \in 1..Len(ctxs[x].pendingRefs[uuid]) :
        Reaches(A, ctxs[x].pendingRefs[uuid][i].modelSchema)}

\* the invocations of the caller's function made by the step
NewInvocations == {i \in (Len(log) + 1)..Len(log') : log'[i].by = AwaitFn.id}

(***************************************************************************)
(* C26  resolve(publishedSchema, id, value) on the root Context, when it   *)
(* returns normally: one entry {publishedSchema, value} is appended to     *)
(* resolvedRefs[id]; the entries pending under id whose awaiter schema     *)
(* publishedSchema is assignable to are removed, pendingRefsCount drops by *)
(* one for each and the callback of each is invoked once with (null,       *)
(* value); the other entries under id and the entries under other          *)
(* identifiers stay pending, in order, and their callbacks are not         *)
(* invoked.  On a Context that is not root it throws and changes nothing.  *)
(***************************************************************************)
C26_Resolve ==
    [][call'.op = "resolve" =>
         LET x == call'.ctx
             A == call'.schema
             u == call'.uuid
             value == InstanceFor(A)
             gone == Resolved(x, u, A)
             Callbacks(set) == {ctxs[x].pendingRefs[u][i].callback : i \in set}
         IN  IF ~ctxs[x].isRoot
             THEN /\ exc' = "[serializr] Illegal State"
                  /\ ctxs' = ctxs /\ cbs' = cbs /\ log' = log /\ heap' = heap
             ELSE
               /\ ctxs'[x].resolvedRefs =
                     [ctxs[x].resolvedRefs EXCEPT
                         ![u] = Append(@, [modelSchema |-> A, value |-> value])]
               /\ exc' = "" =>
                    /\ ctxs'[x].pendingRefs =
                          [ctxs[x].pendingRefs EXCEPT
                              ![u] = SelectSeq(@, LAMBDA e : ~Reaches(A, e.modelSchema))]
                    /\ ctxs'[x].pendingRefsCount =
                          ctxs[x].pendingRefsCount - Cardinality(gone)
                    /\ Cardinality(NewInvocations) =
                          Cardinality({i \in gone : ctxs[x].pendingRefs[u][i].callback = AwaitFn})
                    /\ \A i \in NewInvocations : log'[i].err = NoErr /\ log'[i].value = value
                    /\ \A c \in 1..Len(cbs) :
                          IF Cont("ctxcb", c, 0) \in Callbacks(gone)
                          THEN /\ ~cbs[c].fired /\ cbs'[c].fired
                               /\ cbs'[c].ran =>
                                     heap'[cbs[c].fn.target].fields[cbs[c].fn.prop] = value
                          ELSE cbs'[c] = cbs[c]]_vars

\* resolve removed two entries pending under its identifier, invoked the
\* callback of each and left an entry of a non-assignable awaiter pending
C26_Witness ==
    /\ call.op = "resolve" /\ call.ctx = 1 /\ exc = ""
    /\ Len(ctxs[1].pendingRefs[call.uuid]) = 1
    /\ ~Reaches(call.schema, ctxs[1].pendingRefs[call.uuid][1].modelSchema)
    /\ ctxs[1].pendingRefsCount = 1
    /\ Len(log) = 2
    /\ \A i \in 1..2 : log[i].by = AwaitFn.id /\ log[i].value = InstanceFor(call.schema)

(***************************************************************************)
(* Vocabulary for the publication of identifiers.                          *)
(***************************************************************************)
\* the call deserialized or updated one Node whose default-lookup
\* references all name the identifier of the object itself
SelfRefs ==
    /\ SingleRoot /\ call.schema = "Node" /\ exc = ""
    /\ HasKey(call.json, "uuid") /\ Get(call.json, "uuid").k = "prim"
    /\ HasKey(call.json, "author") \/ HasKey(call.json, "coauthors")
    /\ Values(call.json, "author") \cup Values(call.json, "coauthors")
          = {Get(call.json, "uuid")}

\* callback r assigned a default-lookup reference that had been enqueued
\* before the identifier property of callback u published its target
ResolvedBy(r, u) ==
    /\ cbs[u].fn.k = "assign" /\ cbs[u].fn.prop = "uuid" /\ cbs[u].ran
    /\ cbs[r].fn.k = "assign" /\ cbs[r].fn.prop = "author" /\ cbs[r].ran
    /\ r < u
    /\ heap[cbs[r].fn.target].fields["author"] = Ref(cbs[u].fn.target)
    /\ \A o \in 1..(cbs[u].fn.target - 1) :
          heap[o].fields["uuid"] # heap[cbs[u].fn.target].fields["uuid"]

(***************************************************************************)
(* C27  Identifier publishing order: the identifier prop publishes the     *)
(* target before it invokes its done callback.  A reference enqueued       *)
(* earlier is resolved, and its callback fires, before the callback of the *)
(* identifier property fires; a default-lookup reference to the identifier *)
(* that is walked later in the same object is resolved at once, with the   *)
(* object itself, and nothing is ever enqueued in pendingRefs.             *)
(***************************************************************************)
C27_PublishBeforeDone ==
    /\ \A r, u \in 1..Len(cbs) : ResolvedBy(r, u) => cbs[r].stamp < cbs[u].stamp
    /\ SelfRefs =>
          /\ ctxs[1].enqueued = 0
          /\ HasKey(call.json, "author") =>
                heap[ctxs[1].target].fields["author"] = Ref(ctxs[1].target)
          /\ HasKey(call.json, "coauthors") =>
                heap[ctxs[1].target].fields["coauthors"]
                   = Arr([i \in 1..Len(Get(call.json, "coauthors").v) |-> Ref(ctxs[1].target)])

\* an object whose author is the object itself has been deserialized
C27_Witness ==
    /\ SelfRefs /\ call.op = "deserialize" /\ HasKey(call.json, "author")
    /\ heap[ctxs[1].target].fields["author"] = Ref(ctxs[1].target)
    /\ ctxs[1].enqueued = 0
    /\ Len(log) = 1 /\ Succeeded(log[1])

(***************************************************************************)
(* Vocabulary for the mutation of targets.                                 *)
(***************************************************************************)
\* the value property p of object h had before the call
Before(h, p) ==
    IF call.op = "update" /\ h = call.target THEN call.initial.fields[p] ELSE Undefined

\* the first property walked (msg, from the JSON key m) was given a value of
\* the wrong shape: its callback latched the error before the walk went on
LatchedFirst ==
    /\ SingleRoot /\ call.schema = "Bag" /\ exc = ""
    /\ HasKey(call.json, "m") /\ ~isPrimitive(Get(call.json, "m"))

(***************************************************************************)
(* C28  During deserialize and update a property of a target changes only  *)
(* inside the assignment function of a callback issued by a Context: every *)
(* property that differs from its value before the call was assigned by a  *)
(* callback that ran; and once the Context has latched an error no         *)
(* property of the target changes any more.                                *)
(***************************************************************************)
C28_TargetOnlyViaCallbacks ==
    /\ \A h \in 1..Len(heap) : \A p \in PropNames :
          heap[h].fields[p] # Before(h, p) =>
             \E c \in 1..Len(cbs) : cbs[c].fn = AssignFn(h, p) /\ cbs[c].ran
    /\ LatchedFirst =>
          /\ ctxs[1].hasError
          /\ \A p \in PropNames : heap[ctxs[1].target].fields[p] = Before(ctxs[1].target, p)

\* the entries of all the lists of pendingRefs of Context x
PendingEntries(x) ==
    UNION {{<<u, i>> : i \in 1..Len(ctxs[x].pendingRefs[u])} : u \in RefKeys}

(***************************************************************************)
(* C29  In every state of a Context, after any sequence of createCallback, *)
(* callback invocation, await and resolve, pendingRefsCount is the number  *)
(* of entries over all the lists of pendingRefs, and pendingCallbacks and  *)
(* pendingRefsCount are not negative.                                      *)
(***************************************************************************)
C29_CountersConsistent ==
    \A x \in 1..Len(ctxs) :
       /\ ctxs[x].pendingRefsCount = Cardinality(PendingEntries(x))
       /\ ctxs[x].pendingCallbacks >= 0
       /\ ctxs[x].pendingRefsCount >= 0

\* three awaits were enqueued and a resolve then removed two of them
C29_Witness ==
    /\ call.op = "resolve" /\ call.ctx = 1
    /\ ctxs[1].enqueued = 3
    /\ ctxs[1].pendingRefsCount = 1
    /\ Cardinality(PendingEntries(1)) = 1

(***************************************************************************)
(* Vocabulary for the completions of the elements of parallel.             *)
(***************************************************************************)
\* the positions, in order of completion, at which an element of parallel p
\* reported an error
ErrorsOf(p) == {j \in 1..Len(pars[p].errs) : pars[p].errs[j].e # ""}

\* every element callback of parallel p was invoked at most once
ElementsOnce(p) ==
    \A i, j \in 1..Len(pars[p].seen) : pars[p].seen[i] = pars[p].seen[j] => i = j

\* the first j completions of parallel p
Prefix(p, j) == SubSeq(pars[p].seen, 1, j)

(***************************************************************************)
(* C30  parallel(ar, processor, cb): when each element callback is invoked *)
(* at most once, cb is invoked at most once whatever the order of the      *)
(* element completions and whatever the mix of successes and errors: with  *)
(* the first error, at the completion that reported it, when an element    *)
(* has reported an error (later errors and successes are ignored), with    *)
(* the full result array at the last completion when all elements have     *)
(* succeeded, and not at all before that.                                  *)
(***************************************************************************)
C30_ParallelOnce ==
    \A p \in 1..Len(pars) :
       ElementsOnce(p) =>
          LET n == Len(pars[p].ar) IN
          IF ErrorsOf(p) # {}
          THEN LET j == CHOOSE j \in ErrorsOf(p) : \A k \in ErrorsOf(p) : j <= k IN
               pars[p].agg = <<[err |-> pars[p].errs[j], seen |-> Prefix(p, j),
                                value |-> Undefined]>>
          ELSE IF Len(pars[p].seen) = n
          THEN /\ pars[p].agg = <<[err |-> NoErr, seen |-> pars[p].seen,
                                   value |-> Arr(pars[p].resultArray)]>>
               /\ Len(pars[p].resultArray) = n
          ELSE pars[p].agg = <<>>

\* of two lookups of a list the second failed and the aggregate callback was
\* invoked with its error, then the first failed too
C30_Witness ==
    \E p \in 1..Len(pars) :
       /\ pars[p].inner = "lookup"
       /\ Len(pars[p].ar) = 2
       /\ pars[p].seen = <<2, 1>>
       /\ pars[p].errs[1].e # "" /\ pars[p].errs[2].e # ""
       /\ pars[p].agg = <<[err |-> pars[p].errs[1], seen |-> <<2>>, value |-> Undefined]>>
(***************************************************************************)
(* Vocabulary for the identifiers that do not decode.                      *)
(***************************************************************************)
\* the model schema of Context y declares the property uuid as identifier
DeclaresIdentifier(y) ==
    \E i \in 1..Len(ModelSchema(ctxs[y].modelSchema).props) :
       LET d == ModelSchema(ctxs[y].modelSchema).props[i] IN
       d.name = "uuid" /\ d.def.k = "identifier"

\* the json of Context y holds an identifier that is no primitive
UndecodedIdentifier(y) ==
    /\ ctxs[y].modelSchema \in SchemaNames
    /\ DeclaresIdentifier(y)
    /\ ctxs[y].json.k = "obj"
    /\ HasKey(ctxs[y].json, "uuid")
    /\ ~isPrimitive(Get(ctxs[y].json, "uuid"))

\* the keys of resolvedRefs under which some Context holds object h
RegisteredUnder(h) ==
    {u \in RefKeys : \E x \in 1..Len(ctxs) :
                        \E i \in 1..Len(ctxs[x].resolvedRefs[u]) :
                           ctxs[x].resolvedRefs[u][i].value = Ref(h)}

(***************************************************************************)
(* C31  The identifier prop schema publishes the target to the resolvedRefs *)
(* of the root Context only when the JSON value decodes as a primitive: the *)
(* target of a Context whose identifier does not decode is registered under *)
(* no identifier.                                                          *)
(***************************************************************************)
C31_RegisterOnlyDecoded ==
    \A y \in 1..Len(ctxs) :
       UndecodedIdentifier(y) => RegisteredUnder(ctxs[y].target) = {}
====
